---- MODULE Spec2Model ----
(***************************************************************************)
(* Task creation use case of result-sample/task_management.                *)
(*                                                                         *)
(* Text is modelled as a sequence of one-character strings, so that the    *)
(* regular expressions, html.escape, strip() and the STRICT character      *)
(* filter act on the characters the way the Python code does.  Time is     *)
(* counted in microseconds; the clock moves in steps of Grace (100 ms),    *)
(* the window DateTimeValue and CreateTaskCommand add to "now".            *)
(***************************************************************************)
EXTENDS Integers, Sequences, FiniteSets, TLC

VARIABLES storage, published, publish_status, clock, uuid_seq,
          pc, cmd, local, steps, response, found,
          storage0, published0, n_success, n_requests,
          probe

\* the state of the creation service and its collaborators
service_vars == <<storage, published, publish_status, clock, uuid_seq,
                  pc, cmd, local, steps, response, found,
                  storage0, published0, n_success, n_requests>>

\* probe holds one direct call of a function of the domain layer: the
\* operation, its arguments, and what it has returned so far
vars == <<service_vars, probe>>

(***************************************************************************)
(* Bounds of the exploration.                                              *)
(***************************************************************************)
MaxRequests == 2
MaxClockSteps == 2

(***************************************************************************)
(* Characters.                                                             *)
(***************************************************************************)
LowerSeq == <<"a","b","c","d","e","f","g","h","i","j","k","l","m",
              "n","o","p","q","r","s","t","u","v","w","x","y","z">>
UpperSeq == <<"A","B","C","D","E","F","G","H","I","J","K","L","M",
              "N","O","P","Q","R","S","T","U","V","W","X","Y","Z">>

Range(f) == {f[i] : i \in DOMAIN f}

LowerLetters == Range(LowerSeq)
UpperLetters == Range(UpperSeq)
Digits == {"0","1","2","3","4","5","6","7","8","9"}

\* \s of the re module, restricted to the characters of the model
WS == {" ", "\t", "\n", "\r", "\f"}
\* \w of the re module, restricted to the characters of the model
WordChars == LowerLetters \cup UpperLetters \cup Digits \cup {"_"}
\* characters c with ord(c) < 32 that are not tab, newline, carriage return
ControlChars == {"\f"}

\* str.lower() on one character
Lower(c) == IF c \in UpperLetters
            THEN LowerSeq[CHOOSE i \in DOMAIN UpperSeq : UpperSeq[i] = c]
            ELSE c

\* str.lower()
LowerStr(s) == [i \in 1..Len(s) |-> Lower(s[i])]

\* "w in s" for strings
Contains(s, w) == \E i \in 1..(Len(s) - Len(w) + 1) : SubSeq(s, i, i + Len(w) - 1) = w

\* str.strip()
Strip(s) ==
    LET keep == {i \in 1..Len(s) : s[i] \notin WS}
    IN IF keep = {} THEN <<>>
       ELSE SubSeq(s, CHOOSE i \in keep : \A j \in keep : i <= j,
                      CHOOSE i \in keep : \A j \in keep : i >= j)

\* n copies of character c
Rep(c, n) == [i \in 1..n |-> c]

SetMax(S) == CHOOSE x \in S : \A y \in S : x >= y
SetMin(S) == CHOOSE x \in S : \A y \in S : x <= y

(***************************************************************************)
(* Regular expressions (the subset the code uses): a pattern is a sequence *)
(* of items; an item matches one character of a class, a greedy or lazy    *)
(* run of them, or the end of the text ($).                                *)
(***************************************************************************)
One(S)      == [kind |-> "one",  neg |-> FALSE, set |-> S]
NotOne(S)   == [kind |-> "one",  neg |-> TRUE,  set |-> S]
Star(S)     == [kind |-> "star", neg |-> FALSE, set |-> S]
NotStar(S)  == [kind |-> "star", neg |-> TRUE,  set |-> S]
LazyAny     == [kind |-> "lazy", neg |-> TRUE,  set |-> {}]
EndOfText   == [kind |-> "end",  neg |-> FALSE, set |-> {}]
Lit(w)      == [i \in 1..Len(w) |-> One({w[i]})]

\* does character c belong to the class of item it (ic: re.IGNORECASE)
InClass(c, it, ic) ==
    LET hit == (c \in it.set) \/ (ic /\ Lower(c) \in it.set)
    IN hit # it.neg

\* length of the run of characters of the class of it, starting at s[i]
RunLen(s, i, it, ic) ==
    LET stops == {j \in i..Len(s) : ~InClass(s[j], it, ic)}
    IN IF stops = {} THEN Len(s) + 1 - i ELSE SetMin(stops) - i

\* position after the match of pat[k..] at s[i..] the backtracking matcher
\* of re finds first, 0 when there is none
RECURSIVE MatchEnd(_, _, _, _, _)
MatchEnd(pat, k, s, i, ic) ==
    IF k > Len(pat) THEN i
    ELSE LET it == pat[k] IN
      CASE it.kind = "one" ->
             IF i <= Len(s) /\ InClass(s[i], it, ic)
             THEN MatchEnd(pat, k + 1, s, i + 1, ic) ELSE 0
        [] it.kind = "end" ->
             IF i = Len(s) + 1 \/ (i = Len(s) /\ s[i] = "\n")
             THEN MatchEnd(pat, k + 1, s, i, ic) ELSE 0
        [] OTHER ->
             LET m == RunLen(s, i, it, ic)
                 ok == {n \in 0..m : MatchEnd(pat, k + 1, s, i + n, ic) # 0}
             IN IF ok = {} THEN 0
                ELSE IF it.kind = "star"
                     THEN MatchEnd(pat, k + 1, s, i + SetMax(ok), ic)
                     ELSE MatchEnd(pat, k + 1, s, i + SetMin(ok), ic)

\* re.search(pat, s) is not None
Search(pat, s, ic) == \E i \in 1..(Len(s) + 1) : MatchEnd(pat, 1, s, i, ic) # 0

\* a match of pat starts at some position of lo..hi
MatchIn(pat, s, lo, hi, ic) == \E j \in lo..hi : MatchEnd(pat, 1, s, j, ic) > j

\* the leftmost position of lo..hi where a match of pat starts (there is one)
RECURSIVE FirstMatch(_, _, _, _, _)
FirstMatch(pat, s, lo, hi, ic) ==
    IF lo >= hi THEN lo
    ELSE IF MatchIn(pat, s, lo, (lo + hi) \div 2, ic)
    THEN FirstMatch(pat, s, lo, (lo + hi) \div 2, ic)
    ELSE FirstMatch(pat, s, ((lo + hi) \div 2) + 1, hi, ic)

\* re.sub(pat, repl, s) from position i on (patterns here never match "")
RECURSIVE SubFrom(_, _, _, _, _)
SubFrom(pat, repl, s, i, ic) ==
    IF ~MatchIn(pat, s, i, Len(s), ic) THEN SubSeq(s, i, Len(s))
    ELSE SubSeq(s, i, FirstMatch(pat, s, i, Len(s), ic) - 1) \o repl
         \o SubFrom(pat, repl, s, MatchEnd(pat, 1, s, FirstMatch(pat, s, i, Len(s), ic), ic), ic)

Sub(pat, repl, s, ic) == SubFrom(pat, repl, s, 1, ic)

\* html.escape(s, quote=True)
EscapeChar(c) ==
    CASE c = "&"  -> <<"&","a","m","p",";">>
      [] c = "<"  -> <<"&","l","t",";">>
      [] c = ">"  -> <<"&","g","t",";">>
      [] c = "\"" -> <<"&","q","u","o","t",";">>
      [] c = "'"  -> <<"&","#","x","2","7",";">>
      [] OTHER    -> <<c>>

RECURSIVE html_escape(_)
html_escape(s) ==
    IF Len(s) = 0 THEN <<>>
    ELSE IF Len(s) = 1 THEN EscapeChar(s[1])
    ELSE LET half == Len(s) \div 2
         IN html_escape(SubSeq(s, 1, half)) \o html_escape(SubSeq(s, half + 1, Len(s)))

(***************************************************************************)
(* Literal words of the patterns and word lists of the code.               *)
(***************************************************************************)
W_script_open == <<"<","s","c","r","i","p","t">>
W_script_close == <<"<","/","s","c","r","i","p","t",">">>
W_iframe_open == <<"<","i","f","r","a","m","e">>
W_iframe_close == <<"<","/","i","f","r","a","m","e",">">>
W_javascript == <<"j","a","v","a","s","c","r","i","p","t",":">>
W_text == <<"t","e","x","t",":">>
W_on == <<"o","n">>
W_eval == <<"e","v","a","l">>
W_alert == <<"a","l","e","r","t">>
W_union == <<"u","n","i","o","n">>
W_select == <<"s","e","l","e","c","t">>
W_drop == <<"d","r","o","p">>
W_table == <<"t","a","b","l","e">>
W_insert == <<"i","n","s","e","r","t">>
W_into == <<"i","n","t","o">>
W_delete == <<"d","e","l","e","t","e">>
W_from == <<"f","r","o","m">>
W_update == <<"u","p","d","a","t","e">>
W_set == <<"s","e","t">>
W_dashes == <<"-","-">>
W_quote_semi == <<"'",";">>
W_admin == <<"a","d","m","i","n">>
W_system == <<"s","y","s","t","e","m">>
W_root == <<"r","o","o","t">>
W_null == <<"n","u","l","l">>
W_undefined == <<"u","n","d","e","f","i","n","e","d">>
W_script == <<"s","c","r","i","p","t">>
W_function == <<"f","u","n","c","t","i","o","n">>

Ws1 == <<One(WS), Star(WS)>>          \* \s+
Ws0 == <<Star(WS)>>                   \* \s*
Quotes == {"\"", "'"}

(***************************************************************************)
(* Value objects of validation_result.py and security_result.py.           *)
(***************************************************************************)
\* ValidationViolation(rule_id, message, severity, field_name); the message
\* is its text plus the number or word index formatted into it.  raised is
\* the class of the exception of the constructor, "" if it returns:
\* "if not all([rule_id, message, field_name]): raise ValueError"
ValidationViolation(rule_id, text, arg, severity, field_name) ==
    IF rule_id = "" \/ text = "" \/ field_name = ""
    THEN [raised |-> "ValueError", rule_id |-> "", message |-> [text |-> "", arg |-> 0],
          severity |-> "", field_name |-> ""]
    ELSE [raised |-> "", rule_id |-> rule_id, message |-> [text |-> text, arg |-> arg],
          severity |-> severity, field_name |-> field_name]

\* ValidationResult(is_valid, violations): "if not is_valid and not
\* self.violations: raise ValueError"
ValidationResult(is_valid, violations) ==
    IF ~is_valid /\ violations = << >>
    THEN [raised |-> "ValueError", is_valid |-> FALSE, violations |-> << >>]
    ELSE [raised |-> "", is_valid |-> is_valid, violations |-> violations]

\* ValidationResult.get_error_messages
get_error_messages(result) == [i \in 1..Len(result.violations) |-> result.violations[i].message]

SecurityThreat(threat_type, risk_level) == [threat_type |-> threat_type, risk_level |-> risk_level]

Modification(original, modified, reason) ==
    [original |-> original, modified |-> modified, reason |-> reason]

(***************************************************************************)
(* TaskValidationDomainService                                             *)
(***************************************************************************)
\* RESERVED_WORDS with "admin" forgotten
RESERVED_WORDS_without_admin == <<W_system, W_root, W_null, W_undefined,
                                  W_script, W_alert, W_eval, W_function>>

RESERVED_WORDS == <<W_admin, W_system, W_root, W_null, W_undefined,
                    W_script, W_alert, W_eval, W_function>>

\* each regex of INAPPROPRIATE_PATTERNS as the list of its alternatives
INAPPROPRIATE_PATTERNS ==
    << << Lit(<<"p","a","s","s","w","o","r","d">>) \o Ws0 \o <<One({":", "="})>>,
          Lit(<<"s","e","c","r","e","t">>)   \o Ws0 \o <<One({":", "="})>>,
          Lit(<<"t","o","k","e","n">>)    \o Ws0 \o <<One({":", "="})>>,
          Lit(<<"k","e","y">>)      \o Ws0 \o <<One({":", "="})>> >>,
       << Lit(<<"c","r","e","d","i","t">>) \o Ws0 \o Lit(<<"c","a","r","d">>),
          Lit(<<"s","o","c","i","a","l">>) \o Ws0 \o Lit(<<"s","e","c","u","r","i","t","y">>) >>,
       << Lit(<<"h","a","c","k">>), Lit(<<"c","r","a","c","k">>), Lit(<<"e","x","p","l","o","i","t">>) >> >>

validation_xss_patterns ==
    << Lit(W_script_open) \o <<NotStar({">"}), One({">"})>>,
       Lit(W_javascript),
       Lit(W_on) \o <<One(WordChars), Star(WordChars)>> \o Ws0 \o <<One({"="})>>,
       Lit(W_iframe_open) \o <<NotStar({">"}), One({">"})>>,
       Lit(W_eval) \o Ws0 \o <<One({"("})>>,
       Lit(W_alert) \o Ws0 \o <<One({"("})>> >>

\* validation_sql_patterns with the "drop table" pattern forgotten
validation_sql_patterns_without_drop ==
    << Lit(W_union) \o Ws1 \o Lit(W_select),
       Lit(W_insert) \o Ws1 \o Lit(W_into),
       Lit(W_delete) \o Ws1 \o Lit(W_from),
       Lit(W_update) \o Ws1 \o Lit(W_set),
       Lit(W_dashes) \o Ws0 \o <<EndOfText>>,
       Lit(W_quote_semi) >>

validation_sql_patterns ==
    << Lit(W_union) \o Ws1 \o Lit(W_select),
       Lit(W_drop) \o Ws1 \o Lit(W_table),
       Lit(W_insert) \o Ws1 \o Lit(W_into),
       Lit(W_delete) \o Ws1 \o Lit(W_from),
       Lit(W_update) \o Ws1 \o Lit(W_set),
       Lit(W_dashes) \o Ws0 \o <<EndOfText>>,
       Lit(W_quote_semi) >>

\* "for pattern in patterns: if re.search(pattern, text, re.IGNORECASE)"
AnyPatternMatches(patterns, text) ==
    \E k \in 1..Len(patterns) : Search(patterns[k], text, TRUE)

MaxNameLength == 100

validate_basic_rules(task_name) ==
    IF task_name = <<>>
    THEN << ValidationViolation("BR-001", "NAME_REQUIRED", 0, "CRITICAL", "task_name") >>
    ELSE (IF Strip(task_name) = <<>>
          THEN << ValidationViolation("BR-001", "NAME_BLANK", 0, "CRITICAL", "task_name") >>
          ELSE <<>>)
         \o
         (IF Len(Strip(task_name)) > MaxNameLength
          THEN << ValidationViolation("BR-004", "NAME_TOO_LONG", Len(Strip(task_name)),
                                      "HIGH", "task_name") >>
          ELSE <<>>)

validate_security_rules(task_name) ==
    (IF AnyPatternMatches(validation_xss_patterns, task_name)
     THEN << ValidationViolation("BR-005", "FORBIDDEN_CHARS", 0, "CRITICAL", "task_name") >>
     ELSE <<>>)
    \o
    (IF AnyPatternMatches(validation_sql_patterns, task_name)
     THEN << ValidationViolation("BR-005", "FORBIDDEN_CHARS", 0, "CRITICAL", "task_name") >>
     ELSE <<>>)

\* one violation per reserved word contained, in list order
RECURSIVE ReservedViolations(_, _)
ReservedViolations(lowered, k) ==
    IF k > Len(RESERVED_WORDS) THEN <<>>
    ELSE (IF Contains(lowered, RESERVED_WORDS[k])
          THEN << ValidationViolation("BR-RESERVED", "RESERVED_WORD", k, "MEDIUM", "task_name") >>
          ELSE <<>>)
         \o ReservedViolations(lowered, k + 1)

validate_business_rules(task_name) ==
    ReservedViolations(Strip(LowerStr(task_name)), 1)
    \o
    (IF \E k \in 1..Len(INAPPROPRIATE_PATTERNS) :
            AnyPatternMatches(INAPPROPRIATE_PATTERNS[k], task_name)
     THEN << ValidationViolation("BR-CONTENT", "INAPPROPRIATE", 0, "HIGH", "task_name") >>
     ELSE <<>>)

validate_context_rules(context) ==
    IF context.user_id = <<>>
    THEN << ValidationViolation("BR-CONTEXT-USER", "USER_REQUIRED", 0, "HIGH", "user_id") >>
    ELSE <<>>

\* validate_task_creation that returns at the first sub-check with violations
validate_task_creation_short_circuit(task_name, context) ==
    LET violations == IF validate_basic_rules(task_name) # <<>> THEN validate_basic_rules(task_name)
                      ELSE IF validate_security_rules(task_name) # <<>> THEN validate_security_rules(task_name)
                      ELSE IF validate_business_rules(task_name) # <<>> THEN validate_business_rules(task_name)
                      ELSE validate_context_rules(context)
    IN ValidationResult(Len(violations) = 0, violations)

validate_task_creation(task_name, context) ==
    LET violations == validate_basic_rules(task_name)
                      \o validate_security_rules(task_name)
                      \o validate_business_rules(task_name)
                      \o validate_context_rules(context)
    IN ValidationResult(Len(violations) = 0, violations)

(***************************************************************************)
(* TaskSecurityDomainService                                               *)
(***************************************************************************)
\* _sanitize_html that leaves the text as it is
sanitize_html_off(input_text) == [text |-> input_text, mods |-> <<>>]

sanitize_html(input_text) ==
    LET sanitized == html_escape(input_text)
    IN [text |-> sanitized,
        mods |-> IF sanitized # input_text
                 THEN << Modification(input_text, sanitized, [kind |-> "HTML_ESCAPE", arg |-> 0]) >>
                 ELSE <<>>]

\* (pattern, replacement) pairs of _sanitize_scripts
dangerous_patterns ==
    << [pat |-> Lit(W_script_open) \o <<NotStar({">"}), One({">"}), LazyAny>> \o Lit(W_script_close),
        repl |-> <<>>],
       [pat |-> Lit(W_javascript), repl |-> W_text],
       [pat |-> Lit(W_on) \o <<One(WordChars), Star(WordChars)>> \o Ws0 \o <<One({"="})>> \o Ws0
                \o <<One(Quotes), NotStar(Quotes), One(Quotes)>>,
        repl |-> <<>>],
       [pat |-> Lit(W_iframe_open) \o <<NotStar({">"}), One({">"}), LazyAny>> \o Lit(W_iframe_close),
        repl |-> <<>>] >>

RECURSIVE SanitizeScriptsFrom(_, _, _)
SanitizeScriptsFrom(sanitized, mods, k) ==
    IF k > Len(dangerous_patterns) THEN [text |-> sanitized, mods |-> mods]
    ELSE LET new_sanitized == Sub(dangerous_patterns[k].pat, dangerous_patterns[k].repl,
                                  sanitized, TRUE)
         IN IF new_sanitized # sanitized
            THEN SanitizeScriptsFrom(new_sanitized,
                     Append(mods, Modification(sanitized, new_sanitized,
                                               [kind |-> "SCRIPT_PATTERN", arg |-> k])),
                     k + 1)
            ELSE SanitizeScriptsFrom(sanitized, mods, k + 1)

sanitize_scripts(input_text) == SanitizeScriptsFrom(input_text, <<>>, 1)

\* an allow-list that also keeps the characters of an HTML entity
StrictAllowed_with_entities == LowerLetters \cup UpperLetters \cup Digits \cup WS
                               \cup {".", "-", "_", ",", "!", "?", "(", ")", "&", ";"}

\* characters the STRICT policy keeps (the Japanese blocks and the full-width
\* parentheses of the pattern lie outside the characters of the model)
StrictAllowed == LowerLetters \cup UpperLetters \cup Digits \cup WS
                 \cup {".", "-", "_", ",", "!", "?", "(", ")"}

sanitize_special_chars(input_text, policy) ==
    IF policy = "STRICT"
    THEN LET cleaned == SelectSeq(input_text, LAMBDA c : c \in StrictAllowed)
         IN [text |-> cleaned,
             mods |-> IF cleaned # input_text
                      THEN << Modification(input_text, cleaned, [kind |-> "STRICT_CHARS", arg |-> 0]) >>
                      ELSE <<>>]
    ELSE [text |-> input_text, mods |-> <<>>]

apply_whitelist_filter(input_text, policy) == [text |-> input_text, mods |-> <<>>]

MAX_LENGTH == 100

\* a length limit that never truncates
apply_length_limit_off(input_text) == [text |-> input_text, mods |-> <<>>]

apply_length_limit(input_text) ==
    IF Len(input_text) > MAX_LENGTH
    THEN [text |-> SubSeq(input_text, 1, MAX_LENGTH),
          mods |-> << Modification(input_text, SubSeq(input_text, 1, MAX_LENGTH),
                                   [kind |-> "LENGTH_LIMIT", arg |-> MAX_LENGTH]) >>]
    ELSE [text |-> input_text, mods |-> <<>>]

\* any(keyword in mod.reason for keyword in risk_keywords)
IsRiskReason(reason) == reason.kind \in {"HTML_ESCAPE", "SCRIPT_PATTERN"}

\* _calculate_risk_level that reports HIGH from two risk modifications on
calculate_risk_level_high_from_two(modifications) ==
    LET high_risk_count == Cardinality({i \in 1..Len(modifications) :
                                          IsRiskReason(modifications[i].reason)})
    IN IF Len(modifications) = 0 THEN "NONE"
       ELSE IF high_risk_count > 1 THEN "HIGH"
       ELSE IF high_risk_count > 0 THEN "MEDIUM"
       ELSE IF Len(modifications) > 3 THEN "MEDIUM"
       ELSE "LOW"

calculate_risk_level(modifications) ==
    LET high_risk_count == Cardinality({i \in 1..Len(modifications) :
                                          IsRiskReason(modifications[i].reason)})
    IN IF Len(modifications) = 0 THEN "NONE"
       ELSE IF high_risk_count > 2 THEN "HIGH"
       ELSE IF high_risk_count > 0 THEN "MEDIUM"
       ELSE IF Len(modifications) > 3 THEN "MEDIUM"
       ELSE "LOW"

sanitize_task_input(raw_input, sanitization_policy) ==
    LET s1 == sanitize_html(raw_input)
        s2 == sanitize_scripts(s1.text)
        s3 == sanitize_special_chars(s2.text, sanitization_policy)
        s4 == apply_whitelist_filter(s3.text, sanitization_policy)
        s5 == apply_length_limit(s4.text)
        modifications == s1.mods \o s2.mods \o s3.mods \o s4.mods \o s5.mods
    IN [clean_input |-> s5.text,
        modifications |-> modifications,
        risk_level |-> IF Len(modifications) > 0
                       THEN calculate_risk_level(modifications) ELSE "NONE"]

security_xss_patterns ==
    << Lit(W_script_open) \o <<NotStar({">"}), One({">"})>>,
       Lit(W_javascript),
       Lit(W_alert) \o Ws0 \o <<One({"("})>>,
       Lit(W_eval) \o Ws0 \o <<One({"("})>> >>

security_sql_patterns ==
    << Lit(W_union) \o Ws1 \o Lit(W_select),
       Lit(W_drop) \o Ws1 \o Lit(W_table),
       Lit(W_quote_semi) >>

detect_malicious_payloads(input_text) ==
    (IF AnyPatternMatches(security_xss_patterns, input_text)
     THEN << SecurityThreat("XSS", "HIGH") >> ELSE <<>>)
    \o
    (IF AnyPatternMatches(security_sql_patterns, input_text)
     THEN << SecurityThreat("SQL_INJECTION", "CRITICAL") >> ELSE <<>>)

AbnormalLength == 1000

detect_abnormal_patterns(input_text) ==
    (IF Len(input_text) > AbnormalLength
     THEN << SecurityThreat("ABNORMAL_LENGTH", "MEDIUM") >> ELSE <<>>)
    \o
    (IF \E i \in 1..Len(input_text) : input_text[i] \in ControlChars
     THEN << SecurityThreat("CONTROL_CHARS", "LOW") >> ELSE <<>>)

RepetitiveMinLength == 50

\* len(set(text)) < len(text) * 0.1 and len(text) > 50
detect_data_attacks(input_text) ==
    IF Cardinality(Range(input_text)) * 10 < Len(input_text)
       /\ Len(input_text) > RepetitiveMinLength
    THEN << SecurityThreat("REPETITIVE_DATA", "LOW") >> ELSE <<>>

admin_keywords == <<W_admin, W_root, W_system, <<"c","o","n","f","i","g">>>>

check_permission_constraints(input_text, context) ==
    IF context.user_id # W_admin /\ context.user_id # W_system
       /\ \E k \in 1..Len(admin_keywords) : Contains(LowerStr(input_text), admin_keywords[k])
    THEN << SecurityThreat("PRIVILEGE_ESCALATION", "MEDIUM") >>
    ELSE <<>>

\* max(threat.risk_level for threat in threats) compares members of a plain
\* Enum, which define no ordering: with two or more threats it raises
\* TypeError; with one threat no comparison is made
determine_recommended_action(threats) ==
    IF Len(threats) = 0 THEN [raised |-> "", action |-> "ALLOW"]
    ELSE IF Len(threats) > 1 THEN [raised |-> "TypeError", action |-> ""]
    ELSE [raised |-> "",
          action |-> CASE threats[1].risk_level = "CRITICAL" -> "REJECT"
                       [] threats[1].risk_level = "HIGH"     -> "SANITIZE"
                       [] threats[1].risk_level = "MEDIUM"   -> "AUDIT"
                       [] OTHER                              -> "ALLOW"]

\* SecurityCheckResult, or the exception that left the method
check_security_constraints(input_text, context) ==
    LET detected_threats == detect_malicious_payloads(input_text)
                            \o detect_abnormal_patterns(input_text)
                            \o detect_data_attacks(input_text)
                            \o check_permission_constraints(input_text, context)
        recommended == determine_recommended_action(detected_threats)
    IN [raised |-> recommended.raised,
        is_passed |-> Len(detected_threats) = 0,
        detected_threats |-> detected_threats,
        recommended_action |-> recommended.action]

\* SecurityCheckResult.get_critical_threats
get_critical_threats(result) ==
    SelectSeq(result.detected_threats, LAMBDA t : t.risk_level = "CRITICAL")

(***************************************************************************)
(* Exceptions (domain_exceptions.py and the built-in ones the code meets). *)
(***************************************************************************)
\* the class hierarchy with TaskBusinessRuleViolationException derived from
\* TaskDomainException directly
ExceptionParent_business_rule_apart ==
    [TaskDomainException |-> "Exception",
     TaskValidationException |-> "TaskDomainException",
     TaskNameValidationException |-> "TaskValidationException",
     TaskContextValidationException |-> "TaskValidationException",
     TaskBusinessRuleViolationException |-> "TaskDomainException",
     TaskSecurityException |-> "TaskDomainException",
     TaskCreationException |-> "TaskDomainException",
     TaskFactoryException |-> "TaskCreationException",
     ValueError |-> "Exception",
     TypeError |-> "Exception",
     LoggerError |-> "Exception",
     Exception |-> "Exception"]

ExceptionParent ==
    [TaskDomainException |-> "Exception",
     TaskValidationException |-> "TaskDomainException",
     TaskNameValidationException |-> "TaskValidationException",
     TaskContextValidationException |-> "TaskValidationException",
     TaskBusinessRuleViolationException |-> "TaskValidationException",
     TaskSecurityException |-> "TaskDomainException",
     TaskCreationException |-> "TaskDomainException",
     TaskFactoryException |-> "TaskCreationException",
     ValueError |-> "Exception",
     TypeError |-> "Exception",
     LoggerError |-> "Exception",
     Exception |-> "Exception"]

\* isinstance(e, cls)
RECURSIVE IsInstance(_, _)
IsInstance(exc_cls, cls) ==
    \/ exc_cls = cls
    \/ /\ exc_cls # "Exception"
       /\ IsInstance(ExceptionParent[exc_cls], cls)

\* an exception object: class, message, violations (TaskValidationException)
\* and the message of the exception it wraps ("...: {str(e)}")
Exc(cls, message, violations, cause) ==
    [cls |-> cls, message |-> message, violations |-> violations, cause |-> cause]

NoExc == Exc("", "", <<>>, "")

(***************************************************************************)
(* Time.  datetime values are microseconds since an epoch.                 *)
(***************************************************************************)
MicrosPerSecond == 1000000
Grace == 100000

Microsecond(t) == t % MicrosPerSecond

\* datetime.isoformat() and datetime.fromisoformat()
isoformat(t) == <<"iso", t \div MicrosPerSecond, t % MicrosPerSecond>>
fromisoformat(x) == x[2] * MicrosPerSecond + x[3]

\* now.replace(microsecond=now.microsecond + 100000): ValueError when the
\* microsecond field would leave 0..999999
ReplaceRaises(now) == Microsecond(now) + Grace > MicrosPerSecond - 1

\* DateTimeValue.__init__(value) with a value given; now is datetime.now()
\* as read inside the constructor.  The class of the exception, "" if none.
DateTimeValue(value, now) ==
    IF ReplaceRaises(now) THEN "ValueError"
    ELSE IF value > now + Grace THEN "TaskValidationException"
    ELSE ""

(***************************************************************************)
(* Identifiers.  str(uuid.uuid4()) is the n-th generated UUID; other text  *)
(* is not in UUID format.                                                  *)
(***************************************************************************)
uuid4(n) == <<"uuid", n>>
NotAUuid == <<"text", 0>>
NoId == <<"none", 0>>

\* uuid.UUID(value) does not raise
IsUuid(value) == value[1] = "uuid"

\* TaskId.__init__: the class of the exception, "" if none
TaskId(value) == IF value = NoId \/ ~IsUuid(value) THEN "TaskValidationException" ELSE ""

(***************************************************************************)
(* TaskStatus: the enumeration values ("PENDING" stands for the value of   *)
(* TaskStatusEnum.PENDING, and so on).                                     *)
(***************************************************************************)
TaskStatusEnum == {"PENDING", "COMPLETED", "ON_HOLD"}

\* TaskStatus.pending().value
TaskStatus_pending == "PENDING"

\* TaskStatus.__init__(value): the class of the exception, "" if none
TaskStatus(value) == IF value \in TaskStatusEnum THEN "" ELSE "TaskValidationException"

(***************************************************************************)
(* TaskName                                                                *)
(***************************************************************************)
TaskName_MAX_LENGTH == 100

task_name_patterns ==
    << Lit(W_script_open) \o <<LazyAny, One({">"}), LazyAny>> \o Lit(W_script_close),
       Lit(W_javascript),
       Lit(W_on) \o <<One(WordChars), Star(WordChars)>> \o Ws0 \o <<One({"="})>>,
       Lit(W_iframe_open) \o <<LazyAny, One({">"}), LazyAny>> \o Lit(W_iframe_close) >>

RECURSIVE RemovePatternsFrom(_, _)
RemovePatternsFrom(s, k) ==
    IF k > Len(task_name_patterns) THEN s
    ELSE RemovePatternsFrom(Sub(task_name_patterns[k], <<>>, s, TRUE), k + 1)

\* TaskName._sanitize_input
TaskName_sanitize_input(value) == Strip(RemovePatternsFrom(html_escape(value), 1))

\* TaskName.__init__: the exception raised (NoExc if none) and the value
\* held; the exception carries one violation text, for an over-long name
\* the text with the trimmed length in it
TaskName(value) ==
    IF value = <<>>
    THEN [exc |-> Exc("TaskBusinessRuleViolationException", "NAME_REQUIRED",
                      << [text |-> "ENTER_NAME", arg |-> 0] >>, ""),
          value |-> <<>>]
    ELSE IF Strip(value) = <<>>
    THEN [exc |-> Exc("TaskBusinessRuleViolationException", "NAME_REQUIRED",
                      << [text |-> "BLANK_NAME_INVALID", arg |-> 0] >>, ""),
          value |-> <<>>]
    ELSE IF Len(Strip(value)) > TaskName_MAX_LENGTH
    THEN [exc |-> Exc("TaskBusinessRuleViolationException", "NAME_TOO_LONG",
                      << [text |-> "CURRENT_LENGTH", arg |-> Len(Strip(value))] >>, ""),
          value |-> <<>>]
    ELSE [exc |-> NoExc, value |-> TaskName_sanitize_input(Strip(value))]

(***************************************************************************)
(* Task and TaskCreatedEvent                                               *)
(***************************************************************************)
NoTask == [task_id |-> NoId, task_name |-> <<>>, status |-> "",
           created_at |-> 0, updated_at |-> 0]

NoEvent == [event_id |-> NoId, event_type |-> "", aggregate_id |-> NoId,
            task_id |-> NoId, task_name |-> <<>>, user_id |-> <<>>, created_at |-> 0]

\* Task._validate_invariants (INV-004 is the one values of the model can break)
validate_invariants(task_id, task_name, status, created_at, updated_at) ==
    IF created_at > updated_at
    THEN Exc("TaskValidationException", "INV-004", <<>>, "")
    ELSE NoExc

\* Task.__init__
Task(task_id, task_name, status, created_at, updated_at) ==
    LET e == validate_invariants(task_id, task_name, status, created_at, updated_at)
    IN [exc |-> e,
        task |-> IF e = NoExc
                 THEN [task_id |-> task_id, task_name |-> task_name, status |-> status,
                       created_at |-> created_at, updated_at |-> updated_at]
                 ELSE NoTask]

\* Task.create: new_id is TaskId.generate(); now_created and now_updated are
\* the two readings of datetime.now() made by CreatedAt() and UpdatedAt()
Task_create(task_name, new_id, now_created, now_updated) ==
    Task(new_id, task_name, TaskStatus_pending, now_created, now_updated)

\* Task.update_task_name; now is the reading of datetime.now() made by
\* UpdatedAt().  The name and updated_at are assigned before the invariants
\* are validated again, so the task returned is the object as it is left,
\* whether or not the validation raised.
update_task_name(task, new_task_name, now) ==
    [exc |-> validate_invariants(task.task_id, new_task_name, task.status, task.created_at, now),
     task |-> [task EXCEPT !.task_name = new_task_name, !.updated_at = now]]

\* Task.create_domain_event; event_id is the uuid4() of DomainEvent.__init__
\* create_domain_event that names the default user "system" in the event
create_domain_event_for_system(task, user_id, event_id) ==
    [event_id |-> event_id, event_type |-> "TaskCreated", aggregate_id |-> task.task_id,
     task_id |-> task.task_id, task_name |-> task.task_name, user_id |-> W_system,
     created_at |-> task.created_at]

create_domain_event(task, user_id, event_id) ==
    [event_id |-> event_id, event_type |-> "TaskCreated", aggregate_id |-> task.task_id,
     task_id |-> task.task_id, task_name |-> task.task_name, user_id |-> user_id,
     created_at |-> task.created_at]

(***************************************************************************)
(* TaskFactory                                                             *)
(***************************************************************************)
\* TaskFactory.create_task: any exception becomes a TaskFactoryException
TaskFactory_create_task(task_name, new_id, now_created, now_updated) ==
    LET name == TaskName(task_name)
        made == Task_create(name.value, new_id, now_created, now_updated)
    IN IF name.exc # NoExc
       THEN [exc |-> Exc("TaskFactoryException", "TASK_CREATE_FAILED", <<>>, name.exc.message),
             task |-> NoTask]
       ELSE IF made.exc # NoExc
       THEN [exc |-> Exc("TaskFactoryException", "TASK_CREATE_FAILED", <<>>, made.exc.message),
             task |-> NoTask]
       ELSE [exc |-> NoExc, task |-> made.task]

\* TaskFactory.create_task_with_event
create_task_with_event(task_name, user_id, new_id, event_id, now_created, now_updated) ==
    LET made == TaskFactory_create_task(task_name, new_id, now_created, now_updated)
    IN IF made.exc # NoExc
       THEN [exc |-> Exc("TaskFactoryException", "TASK_WITH_EVENT_FAILED", <<>>, made.exc.message),
             task |-> NoTask, event |-> NoEvent]
       ELSE [exc |-> NoExc, task |-> made.task,
             event |-> create_domain_event(made.task, user_id, event_id)]

\* TaskFactory.validate_task_creation_prerequisites
validate_task_creation_prerequisites(task_name, user_id) ==
    IF task_name = <<>> \/ user_id = <<>> THEN FALSE
    ELSE IF Len(Strip(task_name)) = 0 \/ Len(Strip(task_name)) > MaxNameLength THEN FALSE
    ELSE IF Len(Strip(user_id)) = 0 THEN FALSE
    ELSE TRUE

\* TaskFactory.restore_task; now_created and now_updated are the readings of
\* datetime.now() inside CreatedAt(value) and UpdatedAt(value)
restore_task(task_id, task_name, status, created_at_iso, updated_at_iso, now_created, now_updated) ==
    LET name == TaskName(task_name)
        created_at == fromisoformat(created_at_iso)
        updated_at == fromisoformat(updated_at_iso)
        made == Task(task_id, name.value, status, created_at, updated_at)
        failed == Exc("TaskFactoryException", "TASK_RESTORE_FAILED", <<>>, "")
    IN IF \/ TaskId(task_id) # ""
          \/ name.exc # NoExc
          \/ TaskStatus(status) # ""
          \/ DateTimeValue(created_at, now_created) # ""
          \/ DateTimeValue(updated_at, now_updated) # ""
          \/ made.exc # NoExc
       THEN [exc |-> failed, task |-> NoTask]
       ELSE [exc |-> NoExc, task |-> made.task]

(***************************************************************************)
(* TaskRepositoryImpl                                                      *)
(***************************************************************************)
\* TaskRepositoryImpl._task_to_storage_dict
task_to_storage_dict(task) ==
    [task_id |-> task.task_id, task_name |-> task.task_name, status |-> task.status,
     created_at |-> isoformat(task.created_at), updated_at |-> isoformat(task.updated_at),
     version |-> "1.0"]

\* self._storage[task_id_str] = task_data
\* save() that replaces the store by the one new entry
StoragePut_replacing(st, task) ==
    [k \in {task.task_id} |-> task_to_storage_dict(task)]

StoragePut(st, task) ==
    [k \in DOMAIN st \cup {task.task_id} |->
        IF k = task.task_id THEN task_to_storage_dict(task) ELSE st[k]]

\* TaskRepositoryImpl.find_by_id: found flag and the restored Task
find_by_id(st, task_id, now_created, now_updated) ==
    IF task_id \notin DOMAIN st THEN [present |-> FALSE, task |-> NoTask]
    ELSE LET d == st[task_id]
             r == restore_task(d.task_id, d.task_name, d.status, d.created_at,
                               d.updated_at, now_created, now_updated)
         IN IF r.exc # NoExc THEN [present |-> FALSE, task |-> NoTask]
            ELSE [present |-> TRUE, task |-> r.task]

(***************************************************************************)
(* EventPublisherImpl                                                      *)
(***************************************************************************)
\* the entry publish() appends to _published_events (event.to_dict() plus
\* the delivery fields)
PublishedEntry(event) ==
    [event_id |-> event.event_id, event_type |-> event.event_type,
     aggregate_id |-> event.aggregate_id, task_id |-> event.task_id,
     task_name |-> event.task_name, user_id |-> event.user_id,
     created_at |-> isoformat(event.created_at),
     publisher |-> "EventPublisherImpl", delivery_status |-> "DELIVERED"]

\* self._published_events.append({...})
PublishAppend(log, event) == Append(log, PublishedEntry(event))

\* self._publish_status[event.event_id] = PublishStatus(...)
StatusPut(st, event_id, status) ==
    [k \in DOMAIN st \cup {event_id} |-> IF k = event_id THEN status ELSE st[k]]

\* how a call of publish() goes: it returns; a statement before the append
\* raises (the checks of the event, event.to_dict()); or a statement after
\* the append raises (recording the status, self.logger.info)
PublishOutcomes == {"ok", "raise_before_append", "raise_after_append"}

\* EventPublisherImpl.publish: the log, the status map and the exception
\* raised.  "if not event" and "if not event.event_id" raise ValueError
\* before the append.  "except Exception" records FAILED, unless there is
\* no event ("if event and hasattr(event, 'event_id')"), and re-raises; an
\* entry that was appended before the exception stays in the log
publish(log, st, event, outcome) ==
    IF event = NoEvent
    THEN [published |-> log, publish_status |-> st,
          exc |-> Exc("ValueError", "EVENT_MISSING", <<>>, "")]
    ELSE IF event.event_id = NoId
    THEN [published |-> log, publish_status |-> StatusPut(st, event.event_id, "FAILED"),
          exc |-> Exc("ValueError", "EVENT_ID_INVALID", <<>>, "")]
    ELSE [published |-> IF outcome = "raise_before_append" THEN log ELSE PublishAppend(log, event),
          publish_status |-> StatusPut(st, event.event_id,
                                       IF outcome = "ok" THEN "PUBLISHED" ELSE "FAILED"),
          exc |-> IF outcome = "ok" THEN NoExc
                  ELSE IF outcome = "raise_before_append" THEN Exc("ValueError", "EVENT_INVALID", <<>>, "")
                  ELSE Exc("Exception", "PUBLISH_FAILED", <<>>, "")]

\* "for event in events: await self.publish(event)": the first exception
\* ends the loop
RECURSIVE publish_each(_, _, _, _)
publish_each(log, st, events, outcomes) ==
    IF events = << >> THEN [published |-> log, publish_status |-> st, exc |-> NoExc]
    ELSE LET r == publish(log, st, Head(events), Head(outcomes))
         IN IF r.exc # NoExc THEN r
            ELSE publish_each(r.published, r.publish_status, Tail(events), Tail(outcomes))

\* EventPublisherImpl.publish_batch: an empty list returns at once; the
\* exception of a publish is re-raised; after the loop self.logger.info
\* runs inside the try, and when it raises (log_ok false) the batch raises
\* with every event published
publish_batch(log, st, events, outcomes, log_ok) ==
    IF events = << >> THEN [published |-> log, publish_status |-> st, exc |-> NoExc]
    ELSE IF publish_each(log, st, events, outcomes).exc # NoExc \/ log_ok
    THEN publish_each(log, st, events, outcomes)
    ELSE [publish_each(log, st, events, outcomes) EXCEPT !.exc = Exc("LoggerError", "LOGGER_FAILED", <<>>, "")]

(***************************************************************************)
(* CreateTaskCommand                                                       *)
(***************************************************************************)
NoTimestamp == 0 - 1

\* CreateTaskCommand._validate_structure: the class of the exception raised,
\* "" if none; now is the datetime.now() read for the timestamp check
validate_structure(task_name, user_id, request_id, timestamp, now) ==
    IF task_name = <<>> THEN "TaskValidationException"
    ELSE IF user_id = <<>> THEN "TaskValidationException"
    ELSE IF timestamp # NoTimestamp /\ ReplaceRaises(now) THEN "ValueError"
    ELSE IF timestamp # NoTimestamp /\ timestamp > now + Grace THEN "TaskValidationException"
    ELSE IF request_id # NoId /\ ~IsUuid(request_id) THEN "TaskValidationException"
    ELSE ""

\* CreateTaskCommand.to_creation_context (the fields the services read)
to_creation_context(command) ==
    [user_id |-> command.user_id, request_id |-> command.request_id]

(***************************************************************************)
(* TaskCreationDomainService.create_new_task and                           *)
(* TaskCreationApplicationService.create_task                              *)
(***************************************************************************)
\* "except TaskValidationException: raise / except TaskSecurityException:
\*  raise / except Exception as e: raise TaskCreationException(...)"
DomainWrap(exc) ==
    IF IsInstance(exc.cls, "TaskValidationException") \/ IsInstance(exc.cls, "TaskSecurityException")
    THEN exc
    ELSE Exc("TaskCreationException", "TASK_CREATION_PROCESS_FAILED", <<>>, exc.message)

\* _validate_input_parameters followed by validate_task_creation: the
\* exception that leaves create_new_task at this point, NoExc if none
validate_step(task_name, context) ==
    IF ~validate_task_creation_prerequisites(task_name, context.user_id)
    THEN DomainWrap(Exc("TaskCreationException", "PREREQUISITES_NOT_MET", <<>>, ""))
    ELSE LET validation_result == validate_task_creation(task_name, context)
         IN IF ~validation_result.is_valid
            THEN DomainWrap(Exc("TaskValidationException", "VALIDATION_FAILED",
                                get_error_messages(validation_result), ""))
            ELSE NoExc

\* the security check of create_new_task: only a CRITICAL threat raises
\* TaskSecurityException; an exception inside the check is wrapped
security_step(clean_input, context) ==
    LET security_result == check_security_constraints(clean_input, context)
    IN IF security_result.raised # ""
       THEN DomainWrap(Exc(security_result.raised, "NOT_COMPARABLE", <<>>, ""))
       ELSE IF ~security_result.is_passed /\ Len(get_critical_threats(security_result)) > 0
       THEN DomainWrap(Exc("TaskSecurityException", "SECURITY_CONSTRAINT_VIOLATED", <<>>, ""))
       ELSE NoExc

\* create_task with the save moved before the security check
create_task_steps_save_early == <<"validate", "sanitize", "construct", "save",
                                  "security", "publish", "respond">>

\* create_task with the security check moved after the save and the publish
create_task_steps_security_late == <<"validate", "sanitize", "construct", "save",
                                     "publish", "security", "respond">>

\* the order of the statements of create_task and create_new_task
create_task_steps == <<"validate", "sanitize", "security", "construct",
                       "save", "publish", "respond">>

NextStep(step) ==
    create_task_steps[1 + CHOOSE i \in 1..(Len(create_task_steps) - 1) : create_task_steps[i] = step]

NoResponse == [src |-> "", kind |-> "", error_code |-> "", message |-> "", details |-> <<>>,
               task_id |-> NoId, task_name |-> <<>>, status |-> "", created_at |-> 0]

\* CreateTaskResponse.from_task_creation_result; CreateTaskResponse.__init__
\* raises ValueError when an attribute is empty or the id is no UUID (kind
\* "raised", error_code the class of the exception)
from_task_creation_result(task) ==
    IF task.task_id = NoId \/ task.task_name = << >> \/ task.status = "" \/ ~IsUuid(task.task_id)
    THEN [NoResponse EXCEPT !.src = "create_task", !.kind = "raised", !.error_code = "ValueError"]
    ELSE [src |-> "create_task", kind |-> "success", error_code |-> "",
          message |-> "TASK_ADDED", details |-> <<>>,
          task_id |-> task.task_id, task_name |-> task.task_name, status |-> task.status,
          created_at |-> task.created_at]

\* the five codes CreateTaskErrorResponse accepts
valid_codes == {"VALIDATION_ERROR", "SECURITY_ERROR", "BUSINESS_RULE_VIOLATION",
                "INFRASTRUCTURE_ERROR", "UNKNOWN_ERROR"}

\* CreateTaskErrorResponse.__init__: ValueError for a code outside the five
\* codes and for an empty message
ErrorResponse(error_code, message, details) ==
    IF error_code \notin valid_codes \/ message = ""
    THEN [NoResponse EXCEPT !.src = "create_task", !.kind = "raised", !.error_code = "ValueError"]
    ELSE [src |-> "create_task", kind |-> "error", error_code |-> error_code,
          message |-> message, details |-> details,
          task_id |-> NoId, task_name |-> <<>>, status |-> "", created_at |-> 0]

\* create_task raised: an exception of self.logger left it ("LoggerError"
\* stands for the class of what the logger raises)
create_task_raised ==
    [NoResponse EXCEPT !.src = "create_task", !.kind = "raised", !.error_code = "LoggerError"]

\* the except clauses of create_task without the last one, "except
\* Exception": an exception of no listed class leaves create_task
error_response_for_without_catch_all(exc) ==
    IF IsInstance(exc.cls, "TaskValidationException")
    THEN ErrorResponse("VALIDATION_ERROR", exc.message, exc.violations)
    ELSE IF IsInstance(exc.cls, "TaskBusinessRuleViolationException")
    THEN ErrorResponse("BUSINESS_RULE_VIOLATION", exc.message, exc.violations)
    ELSE IF IsInstance(exc.cls, "TaskSecurityException")
    THEN ErrorResponse("SECURITY_ERROR", "SECURITY_PROBLEM",
                       << [text |-> "SECURITY_THREAT", arg |-> 0] >>)
    ELSE IF IsInstance(exc.cls, "TaskCreationException")
    THEN ErrorResponse("INFRASTRUCTURE_ERROR", "TASK_CREATION_FAILED", <<>>)
    ELSE [NoResponse EXCEPT !.src = "create_task", !.kind = "raised", !.error_code = exc.cls]

\* the except clauses of create_task, in their order
error_response_for(exc) ==
    IF IsInstance(exc.cls, "TaskValidationException")
    THEN ErrorResponse("VALIDATION_ERROR", exc.message, exc.violations)
    ELSE IF IsInstance(exc.cls, "TaskBusinessRuleViolationException")
    THEN ErrorResponse("BUSINESS_RULE_VIOLATION", exc.message, exc.violations)
    ELSE IF IsInstance(exc.cls, "TaskSecurityException")
    THEN ErrorResponse("SECURITY_ERROR", "SECURITY_PROBLEM",
                       << [text |-> "SECURITY_THREAT", arg |-> 0] >>)
    ELSE IF IsInstance(exc.cls, "TaskCreationException")
    THEN ErrorResponse("INFRASTRUCTURE_ERROR", "TASK_CREATION_FAILED", <<>>)
    ELSE ErrorResponse("UNKNOWN_ERROR", "UNEXPECTED_ERROR", <<>>)

(***************************************************************************)
(* TaskCreationController                                                  *)
(***************************************************************************)
\* TaskCreationController._get_http_status_code
get_http_status_code(error_code) ==
    CASE error_code = "VALIDATION_ERROR" -> 400
      [] error_code = "SECURITY_ERROR" -> 403
      [] error_code = "BUSINESS_RULE_VIOLATION" -> 422
      [] error_code = "INFRASTRUCTURE_ERROR" -> 500
      [] error_code = "UNKNOWN_ERROR" -> 500
      [] OTHER -> 500

\* JSONResponse(status_code, content): the content is rendered with
\* json.dumps when the response is constructed, which raises TypeError for a
\* content that holds a datetime; raised is the class of the exception
JSONResponse(status_code, error_code, has_datetime) ==
    IF has_datetime THEN [raised |-> "TypeError", error_code |-> "", status_code |-> 0]
    ELSE [raised |-> "", error_code |-> error_code, status_code |-> status_code]

\* TaskCreationController._handle_unknown_error: the content is
\* error_dto.dict() with timestamp = datetime.now()
handle_unknown_error == JSONResponse(500, "UNKNOWN_ERROR", TRUE)

\* TaskCreationController._handle_error_response: the content is
\* error_dto.dict() with timestamp = error_response.timestamp, a datetime
handle_error_response(error_response) ==
    JSONResponse(get_http_status_code(error_response.error_code), error_response.error_code, TRUE)

\* the body of the POST handler of the controller after the DTO was read:
\* outcome is what CreateTaskCommand(...) followed by create_task(command)
\* gave, an exception raised by either included.  The success content is
\* response_dto.dict() with created_at, a datetime.  An exception inside
\* the try goes to "except Exception", which returns what
\* _handle_unknown_error returns or raises
controller_create_task(outcome) ==
    IF outcome.kind = "raised" THEN handle_unknown_error
    ELSE IF outcome.kind = "success"
    THEN (IF JSONResponse(201, "", TRUE).raised # "" THEN handle_unknown_error
          ELSE JSONResponse(201, "", TRUE))
    ELSE IF handle_error_response(outcome).raised # "" THEN handle_unknown_error
    ELSE handle_error_response(outcome)

\* main.py, global_exception_handler: what the client of POST /api/tasks
\* gets when the handler of the controller raises
global_exception_handler == [raised |-> "", error_code |-> "INTERNAL_SERVER_ERROR", status_code |-> 500]

\* the answer of the application to POST /api/tasks
post_api_tasks(outcome) ==
    IF controller_create_task(outcome).raised # "" THEN global_exception_handler
    ELSE controller_create_task(outcome)

(***************************************************************************)
(* Inputs of the exploration: task names and user ids.                     *)
(***************************************************************************)
N_slides == <<"P","r","e","p","a","r","e"," ","m","e","e","t","i","n","g"," ","s","l","i","d","e","s">>
N_admin_access == <<"a","d","m","i","n"," ","a","c","c","e","s","s">>
N_sql == <<"'"," ",";"," ","D","R","O","P"," ","T","A","B","L","E"," ","t","a","s","k","s",";">>
N_sql_inside == <<"F","i","x","'"," ",";"," ","D","R","O","P"," ","T","A","B","L","E"," ","t","a","s","k","s",";"," ","n","o","w">>
N_drop_star == <<"d","r","o","p"," ","*","t","a","b","l","e">>
N_root_star == <<"r","o","*","o","t">>
N_stars == <<"*","*","*">>
U_user123 == <<"u","s","e","r","-","1","2","3">>
N_blank == Rep(" ", 3)
N_long == Rep("x", MaxNameLength + 1)
U_blank == <<" ">>

N_alert_star == <<"a","l","*","e","r","t","(">>

Names == {<< >>, N_blank, N_long, N_slides, N_admin_access, N_sql, N_sql_inside,
          N_sql \o Rep("x", MaxNameLength), N_drop_star, N_root_star, N_stars,
          N_drop_star \o <<" ">> \o N_root_star, N_alert_star,
          N_alert_star \o <<" ">> \o N_root_star, <<" ">> \o N_slides \o <<" ">>}

UserIds == {<<>>, U_user123, W_admin, U_blank}

\* the clock at construction: 0.8 s into a second, so that the last 100 ms
\* of the second and the start of the next one are reached
ClockStart == 8 * Grace
MaxClock == ClockStart + MaxClockSteps * Grace

\* what the clock may have advanced by between two readings inside one call
Advances == {d \in {0, Grace} : clock + d <= MaxClock}

NoCmd == [task_name |-> <<>>, user_id |-> <<>>, request_id |-> NoId]

EmptyLocal == [clean_input |-> <<>>, threats |-> <<>>, task |-> NoTask, event |-> NoEvent,
               exc |-> NoExc]

NoFound == [task_id |-> NoId, present |-> FALSE, task |-> NoTask]

\* no direct call is being made
NoProbe == [op |-> "none", stage |-> 0, arg |-> << >>, out |-> << >>]

Init ==
    /\ storage = << >>
    /\ published = << >>
    /\ publish_status = << >>
    /\ clock = ClockStart
    /\ uuid_seq = 0
    /\ pc = "idle"
    /\ cmd = NoCmd
    /\ local = EmptyLocal
    /\ steps = << >>
    /\ response = NoResponse
    /\ found = NoFound
    /\ storage0 = << >>
    /\ published0 = << >>
    /\ n_success = 0
    /\ n_requests = 0
    /\ probe = NoProbe

(***************************************************************************)
(* A caller builds CreateTaskCommand(task_name, user_id, request_id,       *)
(* timestamp) and calls create_task(command).  When the constructor        *)
(* raises, create_task is not called.  The request id is a uuid4() of the  *)
(* caller, or of the constructor when none is given.  cmd keeps the        *)
(* arguments of the last request, response.src tells whether the           *)
(* constructor raised ("command") or create_task returned ("create_task"). *)
(* The first statement of create_task, self.logger.info, stands before the *)
(* try: when it raises (entry_log_ok false), create_task raises and        *)
(* nothing else of it runs.                                                *)
(***************************************************************************)
ReceiveRequest(task_name, user_id, request_id, timestamp) ==
  \E entry_log_ok \in BOOLEAN :
    LET raised == validate_structure(task_name, user_id, request_id, timestamp, clock)
    IN /\ pc = "idle"
       /\ n_requests' = n_requests + 1
       /\ steps' = << >>
       /\ local' = EmptyLocal
       /\ found' = NoFound
       /\ storage0' = storage
       /\ published0' = published
       /\ IF raised # ""
          THEN /\ response' = [NoResponse EXCEPT !.src = "command", !.kind = "raised",
                                                 !.error_code = raised]
               /\ cmd' = [task_name |-> task_name, user_id |-> user_id, request_id |-> NoId]
               /\ pc' = "idle"
               /\ UNCHANGED uuid_seq
          ELSE /\ response' = IF entry_log_ok THEN NoResponse ELSE create_task_raised
               /\ cmd' = [task_name |-> task_name, user_id |-> user_id,
                          request_id |-> uuid4(uuid_seq + 1)]
               /\ pc' = IF entry_log_ok THEN create_task_steps[1] ELSE "idle"
               /\ uuid_seq' = uuid_seq + 1
       /\ UNCHANGED <<storage, published, publish_status, clock, n_success, probe>>

\* where the call goes after a step: on to the next statement, or to the
\* except clauses of create_task
Goto(step, exc) == IF exc = NoExc THEN NextStep(step) ELSE "respond"

\* create_new_task, steps 1 and 2
Validate ==
    LET exc == validate_step(cmd.task_name, to_creation_context(cmd))
    IN /\ pc = "validate"
       /\ steps' = Append(steps, "validate")
       /\ local' = [local EXCEPT !.exc = exc]
       /\ pc' = Goto("validate", exc)
       /\ UNCHANGED <<storage, published, publish_status, clock, uuid_seq, cmd, response,
                      found, storage0, published0, n_success, n_requests, probe>>

\* create_new_task, step 3-1
Sanitize ==
    /\ pc = "sanitize"
    /\ steps' = Append(steps, "sanitize")
    /\ local' = [local EXCEPT !.clean_input =
                     sanitize_task_input(cmd.task_name, "STRICT").clean_input]
    /\ pc' = NextStep("sanitize")
    /\ UNCHANGED <<storage, published, publish_status, clock, uuid_seq, cmd, response,
                   found, storage0, published0, n_success, n_requests, probe>>

\* create_new_task, step 3-2
SecurityCheck ==
    LET context == to_creation_context(cmd)
        exc == security_step(local.clean_input, context)
    IN /\ pc = "security"
       /\ steps' = Append(steps, "security")
       /\ local' = [local EXCEPT
                       !.threats = check_security_constraints(local.clean_input, context).detected_threats,
                       !.exc = exc]
       /\ pc' = Goto("security", exc)
       /\ UNCHANGED <<storage, published, publish_status, clock, uuid_seq, cmd, response,
                      found, storage0, published0, n_success, n_requests, probe>>

\* create_new_task, step 4: TaskFactory.create_task_with_event
Construct ==
    \E d \in Advances :
      LET r == create_task_with_event(local.clean_input, cmd.user_id,
                                      uuid4(uuid_seq + 1), uuid4(uuid_seq + 2),
                                      clock, clock + d)
          exc == IF r.exc = NoExc THEN NoExc ELSE DomainWrap(r.exc)
      IN /\ pc = "construct"
         /\ steps' = Append(steps, "construct")
         /\ local' = [local EXCEPT !.task = r.task, !.event = r.event, !.exc = exc]
         /\ uuid_seq' = IF TaskName(local.clean_input).exc = NoExc THEN uuid_seq + 2 ELSE uuid_seq
         /\ clock' = IF TaskName(local.clean_input).exc = NoExc THEN clock + d ELSE clock
         /\ pc' = Goto("construct", exc)
         /\ UNCHANGED <<storage, published, publish_status, cmd, response,
                        found, storage0, published0, n_success, n_requests, probe>>

\* create_task, step 6: await task_repository.save(task)
Save ==
    \E ok \in BOOLEAN :
      LET exc == IF ok THEN NoExc
                 ELSE Exc("TaskCreationException", "TASK_SAVE_FAILED", <<>>, "")
      IN /\ pc = "save"
         /\ steps' = Append(steps, "save")
         /\ storage' = IF ok THEN StoragePut(storage, local.task) ELSE storage
         /\ local' = [local EXCEPT !.exc = exc]
         /\ pc' = Goto("save", exc)
         /\ UNCHANGED <<published, publish_status, clock, uuid_seq, cmd, response,
                        found, storage0, published0, n_success, n_requests, probe>>

\* create_task, step 7: await event_publisher.publish(event)
Publish ==
    \E outcome \in PublishOutcomes :
      LET r == publish(published, publish_status, local.event, outcome)
      IN /\ pc = "publish"
         /\ steps' = Append(steps, "publish")
         /\ published' = r.published
         /\ publish_status' = r.publish_status
         /\ local' = [local EXCEPT !.exc = r.exc]
         /\ pc' = Goto("publish", r.exc)
         /\ UNCHANGED <<storage, clock, uuid_seq, cmd, response,
                        found, storage0, published0, n_success, n_requests, probe>>

\* an except clause of create_task: it logs through self.logger and then
\* builds the error response; when the logger raises (handler_log_ok
\* false) the exception of the logger leaves create_task
create_task_handler(exc, handler_log_ok) ==
    IF handler_log_ok THEN error_response_for(exc) ELSE create_task_raised

\* create_task, step 9 and the except clauses: the value returned.  The
\* response is built and self.logger.info is called inside the try block,
\* so a ValueError of CreateTaskResponse and an exception of that
\* logger.info (info_log_ok false) go to the handler of "except Exception"
create_task_response(task, exc, info_log_ok, handler_log_ok) ==
    IF exc # NoExc THEN create_task_handler(exc, handler_log_ok)
    ELSE IF from_task_creation_result(task).kind = "raised"
    THEN create_task_handler(Exc(from_task_creation_result(task).error_code, "ATTRIBUTES_REQUIRED", <<>>, ""),
                             handler_log_ok)
    ELSE IF ~info_log_ok
    THEN create_task_handler(Exc("LoggerError", "LOGGER_FAILED", <<>>, ""), handler_log_ok)
    ELSE from_task_creation_result(task)

Respond ==
    \E info_log_ok \in BOOLEAN, handler_log_ok \in BOOLEAN :
      /\ pc = "respond"
      /\ steps' = Append(steps, "respond")
      /\ response' = create_task_response(local.task, local.exc, info_log_ok, handler_log_ok)
      /\ n_success' = IF create_task_response(local.task, local.exc, info_log_ok, handler_log_ok).kind = "success"
                      THEN n_success + 1 ELSE n_success
      /\ pc' = "idle"
      /\ local' = EmptyLocal
      /\ UNCHANGED <<storage, published, publish_status, clock, uuid_seq, cmd,
                     found, storage0, published0, n_requests, probe>>

\* await task_repository.find_by_id(task_id), between requests
FindById(task_id) ==
    \E d \in Advances :
      /\ pc = "idle"
      /\ found' = [task_id |-> task_id] @@ find_by_id(storage, task_id, clock, clock + d)
      /\ clock' = clock + d
      /\ UNCHANGED <<storage, published, publish_status, uuid_seq, pc, cmd, local, steps,
                     response, storage0, published0, n_success, n_requests, probe>>

\* time passes between requests
Tick ==
    /\ pc = "idle"
    /\ clock + Grace <= MaxClock
    /\ clock' = clock + Grace
    /\ UNCHANGED <<storage, published, publish_status, uuid_seq, pc, cmd, local, steps,
                   response, found, storage0, published0, n_success, n_requests, probe>>

\* TaskRepositoryImpl.clear_all(), between requests
ClearAll ==
    /\ pc = "idle"
    /\ storage' = << >>
    /\ UNCHANGED <<published, publish_status, clock, uuid_seq, pc, cmd, local, steps,
                   response, found, storage0, published0, n_success, n_requests, probe>>

\* EventPublisherImpl.clear_published_events(), between requests
ClearPublishedEvents ==
    /\ pc = "idle"
    /\ published' = << >>
    /\ publish_status' = << >>
    /\ UNCHANGED <<storage, clock, uuid_seq, pc, cmd, local, steps,
                   response, found, storage0, published0, n_success, n_requests, probe>>

\* the TaskCreatedEvent a caller builds for the stored task task_id, its
\* event id the n-th uuid4() from now
StoredTaskEvent(task_id, n) ==
    [event_id |-> uuid4(uuid_seq + n), event_type |-> "TaskCreated", aggregate_id |-> task_id,
     task_id |-> task_id, task_name |-> storage[task_id].task_name, user_id |-> U_user123,
     created_at |-> clock]

\* the lists of events handed to publish_batch: none, one or two events
Batches ==
    {<< >>} \cup {<<StoredTaskEvent(k, 1)>> : k \in DOMAIN storage}
            \cup {<<StoredTaskEvent(k, 1), StoredTaskEvent(j, 2)>> : k \in DOMAIN storage, j \in DOMAIN storage}

\* the event ids a run may use
MaxUuidSeq == 3 * MaxRequests + 2

\* await event_publisher.publish_batch(events), between requests;
\* outcomes[i] is how publish goes for events[i]
PublishBatch(events, outcomes) ==
  \E log_ok \in BOOLEAN :
    LET r == publish_batch(published, publish_status, events, outcomes, log_ok)
    IN /\ pc = "idle"
       /\ uuid_seq + Len(events) <= MaxUuidSeq
       /\ published' = r.published
       /\ publish_status' = r.publish_status
       /\ uuid_seq' = uuid_seq + Len(events)
       /\ UNCHANGED <<storage, clock, pc, cmd, local, steps,
                      response, found, storage0, published0, n_success, n_requests, probe>>

Timestamps == {NoTimestamp, clock, clock + 2 * Grace}
RequestIds == {NoId, NotAUuid, uuid4(uuid_seq + 1)}
LookupIds == DOMAIN storage \cup {uuid4(0)}

\* the requests of the runs of several requests
SeqNames == {N_slides, N_admin_access, N_drop_star, N_stars}
SeqUserIds == {U_user123}

(***************************************************************************)
(* Spec: up to MaxRequests requests, one after the other.                  *)
(***************************************************************************)
Next ==
    \/ /\ n_requests < MaxRequests
       /\ \E task_name \in SeqNames, user_id \in SeqUserIds, request_id \in RequestIds,
             timestamp \in Timestamps :
             ReceiveRequest(task_name, user_id, request_id, timestamp)
    \/ Validate
    \/ Sanitize
    \/ SecurityCheck
    \/ Construct
    \/ Save
    \/ Publish
    \/ Respond
    \/ \E task_id \in LookupIds : FindById(task_id)
    \/ Tick

Spec == Init /\ [][Next]_vars

(***************************************************************************)
(* SpecOne: one request, drawn from all the names and user ids.            *)
(***************************************************************************)
NextOne ==
    \/ /\ n_requests = 0
       /\ \E task_name \in Names, user_id \in UserIds, request_id \in RequestIds,
             timestamp \in Timestamps :
             ReceiveRequest(task_name, user_id, request_id, timestamp)
    \/ Validate
    \/ Sanitize
    \/ SecurityCheck
    \/ Construct
    \/ Save
    \/ Publish
    \/ Respond
    \/ \E task_id \in LookupIds : FindById(task_id)
    \/ Tick

SpecOne == Init /\ [][NextOne]_vars

(***************************************************************************)
(* SpecMaintenance: one creation request, and before and after it the      *)
(* calls the repository and the publisher offer beside save, find_by_id    *)
(* and publish: clear_all, clear_published_events and publish_batch.       *)
(* create_task calls none of them.                                         *)
(***************************************************************************)
NextMaintenance ==
    \/ /\ n_requests = 0
       /\ ReceiveRequest(N_slides, U_user123, NoId, NoTimestamp)
    \/ Validate
    \/ Sanitize
    \/ SecurityCheck
    \/ Construct
    \/ Save
    \/ Publish
    \/ Respond
    \/ ClearAll
    \/ ClearPublishedEvents
    \/ \E events \in Batches : \E outcomes \in [1..Len(events) -> PublishOutcomes] :
          PublishBatch(events, outcomes)

SpecMaintenance == Init /\ [][NextMaintenance]_vars

(***************************************************************************)
(* SpecFn: direct calls of the functions of the domain layer.  A behaviour *)
(* makes one call; its arguments are drawn from bounded sets.              *)
(***************************************************************************)
T_script == <<"<","s","c","r","i","p","t",">","a","l","e","r","t","(","1",")","<","/","s","c","r","i","p","t",">">>
T_amp == <<"a","&","b">>
T_onclick == <<"o","n","c","l","i","c","k","=","\"","x","\"">>
T_iframe == <<"<","i","f","r","a","m","e"," ","s","r","c","=","x",">","a","<","/","i","f","r","a","m","e",">">>

\* SanitizationPolicy
Policies == {"STRICT", "MODERATE", "LENIENT"}

SanitizeTexts ==
    { << >>, N_slides, T_amp, T_script, <<"x">> \o T_script \o <<"y">>,
      <<"<","S","C","R","I","P","T",">","a","<","/","S","C","R","I","P","T",">">>, W_javascript \o <<"x">>, <<"a","'","b","\"","c">>,
      Rep("x", MAX_LENGTH), Rep("x", MAX_LENGTH + 1), Rep("x", MAX_LENGTH + 50),
      Rep("&", 40), Rep("*", MAX_LENGTH + 50), T_script \o Rep("x", MAX_LENGTH),
      T_onclick, T_iframe, W_javascript \o <<"<","b",">">>,
      T_script \o <<" ">> \o T_onclick \o <<" ">> \o T_iframe \o <<" ">> \o W_javascript \o <<"x">> }

SanitizeCalls ==
    { [op |-> "sanitize", stage |-> 0, arg |-> [text |-> x, policy |-> p], out |-> << >>] :
        x \in SanitizeTexts, p \in Policies }

\* sanitize_task_input(raw_input, policy)
SanitizeText ==
    /\ probe.op = "sanitize"
    /\ probe.stage = 0
    /\ probe' = [probe EXCEPT !.stage = 1,
                              !.out = << sanitize_task_input(probe.arg.text, probe.arg.policy) >>]
    /\ UNCHANGED service_vars

\* sanitize_task_input(clean_input, policy) on the clean text of the first call
SanitizeCleanText ==
    /\ probe.op = "sanitize"
    /\ probe.stage = 1
    /\ probe' = [probe EXCEPT !.stage = 2,
                              !.out = Append(probe.out,
                                  sanitize_task_input(probe.out[1].clean_input, probe.arg.policy))]
    /\ UNCHANGED service_vars

TaskNameValues ==
    { << >>, <<" ">>, N_blank, <<"a">>, <<" ","a"," ">>, N_slides, T_amp, T_script,
      W_javascript, W_javascript \o <<" ","x">>, <<"o","n","c","l","i","c","k","=">>,
      Rep("x", TaskName_MAX_LENGTH), Rep("x", TaskName_MAX_LENGTH + 1),
      <<" ">> \o Rep("x", TaskName_MAX_LENGTH) \o <<" ">>, Rep("&", TaskName_MAX_LENGTH) }

TaskNameCalls ==
    { [op |-> "task_name", stage |-> 0, arg |-> [value |-> v], out |-> << >>] :
        v \in TaskNameValues }

\* TaskName(value)
NewTaskName ==
    /\ probe.op = "task_name"
    /\ probe.stage = 0
    /\ probe' = [probe EXCEPT !.stage = 1, !.out = TaskName(probe.arg.value)]
    /\ UNCHANGED service_vars

\* readings of datetime.now(): the wall clock may be set back between two
\* readings
Readings == {ClockStart - Grace, ClockStart, ClockStart + Grace}

\* times[1], times[2]: the readings of Task.create; the later ones: the
\* readings of the calls of update_task_name
TaskCalls ==
    { [op |-> "task", stage |-> 0, arg |-> [name |-> <<"a">>, times |-> <<t1, t2, t3, t4>>],
       out |-> << >>] : t1 \in Readings, t2 \in Readings, t3 \in Readings, t4 \in Readings }

\* Task.create(TaskName(name))
CreateTaskEntity ==
    /\ probe.op = "task"
    /\ probe.stage = 0
    /\ probe' = [probe EXCEPT !.stage = 1,
                              !.out = Task_create(TaskName(probe.arg.name).value, uuid4(1),
                                                  probe.arg.times[1], probe.arg.times[2])]
    /\ UNCHANGED service_vars

\* task.update_task_name(TaskName("b")) on the Task object of the probe
UpdateTaskName ==
    /\ probe.op = "task"
    /\ probe.stage >= 1
    /\ probe.stage + 2 <= Len(probe.arg.times)
    /\ probe.out.task # NoTask
    /\ probe' = [probe EXCEPT !.stage = probe.stage + 1,
                              !.out = update_task_name(probe.out.task, TaskName(<<"b">>).value,
                                                       probe.arg.times[probe.stage + 2])]
    /\ UNCHANGED service_vars

\* readings of datetime.now() on both sides of the last 100 ms of a second
CommandReadings == {ClockStart, ClockStart + Grace - 1, ClockStart + Grace, MicrosPerSecond - 1, MicrosPerSecond}

\* timestamps around the end of the grace window of the reading
TimestampOffsets == {0 - Grace, 0, Grace, Grace + 1, 2 * Grace}

CommandCalls ==
    { [op |-> "command", stage |-> 0, arg |-> [now |-> now, timestamp |-> now + d], out |-> ""] : now \in CommandReadings, d \in TimestampOffsets }

\* CreateTaskCommand(task_name, user_id, timestamp=timestamp) while
\* datetime.now() reads arg.now
NewCreateTaskCommand ==
    /\ probe.op = "command"
    /\ probe.stage = 0
    /\ probe' = [probe EXCEPT !.stage = 1,
                              !.out = validate_structure(N_slides, U_user123, NoId, probe.arg.timestamp, probe.arg.now)]
    /\ UNCHANGED service_vars

\* texts with no threat, with one threat of each risk level, and with two or
\* three threats
SecurityTexts ==
    { << >>, N_slides, W_drop \o <<" ">> \o W_table, W_quote_semi, W_script_open \o <<">">>,
      W_admin, <<"a","\f">>, Rep("x", RepetitiveMinLength + 1),
      W_admin \o <<" ">> \o W_drop \o <<" ">> \o W_table,
      W_script_open \o <<">"," ">> \o W_drop \o <<" ">> \o W_table,
      W_alert \o <<"(","\f">>, W_root \o <<"\f">>, Rep("\f", RepetitiveMinLength + 1),
      W_script_open \o <<">"," ">> \o W_drop \o <<" ">> \o W_table \o <<" ">> \o W_admin }

SecurityCalls ==
    { [op |-> "security", stage |-> 0, arg |-> [text |-> x, user_id |-> u], out |-> << >>] :
        x \in SecurityTexts, u \in {U_user123, W_admin} }

\* check_security_constraints(input_text, context)
CheckSecurityConstraints ==
    /\ probe.op = "security"
    /\ probe.stage = 0
    /\ probe' = [probe EXCEPT !.stage = 1,
                              !.out = check_security_constraints(probe.arg.text,
                                          [user_id |-> probe.arg.user_id, request_id |-> NoId])]
    /\ UNCHANGED service_vars

T_password == <<"P","a","s","s","w","o","r","d",":"," ","h","a","c","k"," ","t","o","k","e","n","=">>

ValidationNames ==
    { << >>, N_blank, N_slides, N_long, N_admin_access, N_sql, N_sql_inside, N_root_star,
      W_admin \o W_root \o W_null, T_script, T_password,
      T_script \o <<" ">> \o N_sql, W_iframe_open \o <<">"," ">> \o W_union \o <<" ">> \o W_select,
      N_blank \o Rep(" ", MaxNameLength),
      N_long \o <<" ">> \o T_script \o <<" ">> \o N_sql \o <<" ">> \o T_password }

ValidationCalls ==
    { [op |-> "validation", stage |-> 0, arg |-> [task_name |-> x, user_id |-> u], out |-> << >>] :
        x \in ValidationNames, u \in {<< >>, U_user123} }

\* validate_task_creation(task_name, context)
ValidateTaskCreation ==
    /\ probe.op = "validation"
    /\ probe.stage = 0
    /\ probe' = [probe EXCEPT !.stage = 1,
                              !.out = validate_task_creation(probe.arg.task_name,
                                          [user_id |-> probe.arg.user_id, request_id |-> NoId])]
    /\ UNCHANGED service_vars

\* the longest modification list handed to _calculate_risk_level directly
MaxMods == 4

ReasonKinds == {"HTML_ESCAPE", "SCRIPT_PATTERN", "STRICT_CHARS", "LENGTH_LIMIT"}

RiskCalls ==
    { [op |-> "risk", stage |-> 0, arg |-> [kinds |-> ks], out |-> ""] :
        ks \in UNION { [1..n -> ReasonKinds] : n \in 0..MaxMods } }

\* _calculate_risk_level(modifications) on a list of modifications with the
\* given reasons
CalculateRiskLevel ==
    /\ probe.op = "risk"
    /\ probe.stage = 0
    /\ probe' = [probe EXCEPT !.stage = 1,
                              !.out = calculate_risk_level(
                                          [i \in 1..Len(probe.arg.kinds) |->
                                              Modification(<< >>, << >>, [kind |-> probe.arg.kinds[i], arg |-> 0])])]
    /\ UNCHANGED service_vars

ProbeCalls == SanitizeCalls \cup TaskNameCalls \cup TaskCalls \cup CommandCalls \cup SecurityCalls \cup ValidationCalls \cup RiskCalls

InitFn ==
    /\ storage = << >>
    /\ published = << >>
    /\ publish_status = << >>
    /\ clock = ClockStart
    /\ uuid_seq = 0
    /\ pc = "idle"
    /\ cmd = NoCmd
    /\ local = EmptyLocal
    /\ steps = << >>
    /\ response = NoResponse
    /\ found = NoFound
    /\ storage0 = << >>
    /\ published0 = << >>
    /\ n_success = 0
    /\ n_requests = 0
    /\ probe \in ProbeCalls

NextFn ==
    \/ SanitizeText
    \/ SanitizeCleanText
    \/ NewTaskName
    \/ CreateTaskEntity
    \/ UpdateTaskName
    \/ NewCreateTaskCommand
    \/ CheckSecurityConstraints
    \/ ValidateTaskCreation
    \/ CalculateRiskLevel

SpecFn == InitFn /\ [][NextFn]_vars

(***************************************************************************)
(* Properties.                                                             *)
(***************************************************************************)
HasStep(step) == \E i \in 1..Len(steps) : steps[i] = step

\* the call of create_task for the last request is over: it returned a
\* response or raised
Ended == pc = "idle" /\ response.src = "create_task"

\* create_task has returned its response to the last request
Returned == Ended /\ response.kind # "raised"

\* the last statement create_task ran before it built its response
LastStep == IF Len(steps) >= 2 THEN steps[Len(steps) - 1] ELSE ""

\* create_task returned an error that arose in one of the given steps
ErrorIn(stepset) == Returned /\ response.kind = "error" /\ LastStep \in stepset

BeforeSave == {"validate", "sanitize", "security", "construct"}

Ctx == to_creation_context(cmd)
CleanInput == sanitize_task_input(cmd.task_name, "STRICT").clean_input

\* the ids stored since the last request began
NewTaskIds == DOMAIN storage \ DOMAIN storage0

\* the steps of the current call without the final building of the response
StepsBody == IF steps # << >> /\ steps[Len(steps)] = "respond"
             THEN SubSeq(steps, 1, Len(steps) - 1) ELSE steps

\* C1: the steps of create_task run in the order validate, sanitize,
\* security check, construct, save, publish; a step runs only if the ones
\* before it succeeded; save is never reached unless the security check of
\* the sanitized text ended without a CRITICAL threat, publish never unless
\* save stored the task.
C1_FixedOrder ==
    /\ StepsBody = SubSeq(<<"validate", "sanitize", "security", "construct", "save", "publish">>,
                          1, Len(StepsBody))
    /\ HasStep("sanitize") => validate_step(cmd.task_name, Ctx) = NoExc
    /\ HasStep("construct") => security_step(CleanInput, Ctx) = NoExc
    /\ HasStep("save") =>
          /\ HasStep("security")
          /\ Len(get_critical_threats(check_security_constraints(CleanInput, Ctx))) = 0
          /\ TaskName(CleanInput).exc = NoExc
    /\ HasStep("publish") => HasStep("save") /\ NewTaskIds # {}

C1_Witness ==
    /\ Returned
    /\ response.kind = "success"
    /\ steps = <<"validate", "sanitize", "security", "construct", "save", "publish", "respond">>

\* C2: when create_task returns an error that arose before the save step,
\* the storage map and the published-event log are what they were before
\* the request.
C2_NoPartialState ==
    ErrorIn(BeforeSave) => storage = storage0 /\ published = published0

C2_Witness ==
    /\ ErrorIn(BeforeSave)
    /\ LastStep = "security"
    /\ DOMAIN storage0 # {}
    /\ Len(published0) > 0

\* the publish of the last request raised (its status is FAILED)
PublishRaised ==
    /\ Returned
    /\ LastStep = "publish"
    /\ uuid4(uuid_seq) \in DOMAIN publish_status
    /\ publish_status[uuid4(uuid_seq)] = "FAILED"

\* C3: if save succeeds and publish then raises, the task stays in storage
\* and a later find_by_id returns it, no event for it is in the published
\* log, and the caller receives an error response.
C3_SaveNotRolledBack ==
    PublishRaised =>
        /\ response.kind = "error"
        /\ NewTaskIds # {}
        /\ \A id \in NewTaskIds :
              /\ \A i \in 1..Len(published) : published[i].task_id # id
              /\ found.task_id = id => found.present

\* C4: between requests the published log holds exactly one TaskCreated
\* event for each request that returned success and none for a request that
\* returned an error, and no task id occurs in two events.
C4_OneEventPerSuccess ==
    pc = "idle" =>
        /\ Len(published) = n_success
        /\ \A i, j \in 1..Len(published) :
              published[i].task_id = published[j].task_id => i = j
        /\ (Returned /\ response.kind = "error") => published = published0
        /\ response.src = "command" => published = published0
        /\ (Returned /\ response.kind = "success") =>
              /\ Len(published) = Len(published0) + 1
              /\ SubSeq(published, 1, Len(published0)) = published0
              /\ published[Len(published)].task_id = response.task_id
              /\ published[Len(published)].event_type = "TaskCreated"

\* create_task has answered a request that named a user
Answered == Returned /\ Strip(cmd.user_id) # << >>

\* C5: for every name that is empty or only whitespace, creation fails with
\* BUSINESS_RULE_VIOLATION, the error cites BR-001, and no task is stored.
C5_BlankNameIsBR001 ==
    (Answered /\ Strip(cmd.task_name) = << >>) =>
        /\ response.error_code = "BUSINESS_RULE_VIOLATION"
        /\ \E i \in 1..Len(response.details) :
              response.details[i].text \in {"NAME_REQUIRED", "NAME_BLANK"}
        /\ storage = storage0

\* C6: for every name longer than 100 characters after trimming, creation
\* fails with an error that cites BR-004 and carries the trimmed character
\* count, and no task is stored.
C6_LongNameIsBR004 ==
    (Answered /\ Len(Strip(cmd.task_name)) > 100) =>
        /\ response.kind = "error"
        /\ \E i \in 1..Len(response.details) :
              /\ response.details[i].text = "NAME_TOO_LONG"
              /\ response.details[i].arg = Len(Strip(cmd.task_name))
        /\ storage = storage0

\* C7 as stated: for every name containing ' ; DROP TABLE tasks; create_task
\* answers SECURITY_ERROR and stores no task.
C7_SqlIsSecurityError ==
    (Returned /\ Contains(cmd.task_name, N_sql)) =>
        /\ response.error_code = "SECURITY_ERROR"
        /\ storage = storage0

\* C7 amended: for every name containing ' ; DROP TABLE tasks; create_task,
\* when it returns an answer (its logger did not raise), answers with an error before the security check is reached and stores no
\* task; the code is VALIDATION_ERROR when the trimmed name has at most 100
\* characters and the user id is not blank, INFRASTRUCTURE_ERROR otherwise,
\* and never SECURITY_ERROR.
C7_SqlIsRejectedByValidation ==
    (Returned /\ Contains(cmd.task_name, N_sql)) =>
        /\ response.kind = "error"
        /\ response.error_code # "SECURITY_ERROR"
        /\ response.error_code =
              IF Len(Strip(cmd.task_name)) <= 100 /\ Strip(cmd.user_id) # << >>
              THEN "VALIDATION_ERROR" ELSE "INFRASTRUCTURE_ERROR"
        /\ ~HasStep("security")
        /\ storage = storage0

C7_Witness ==
    /\ Returned
    /\ cmd.task_name = N_sql_inside
    /\ response.error_code = "VALIDATION_ERROR"
    /\ \E i \in 1..Len(response.details) : response.details[i].text = "FORBIDDEN_CHARS"

\* C8 as stated: "admin access" from a user other than admin and system
\* raises a MEDIUM permission threat, and create_task returns success and
\* stores the task.
C8_AdminAccessIsCreated ==
    (Returned /\ cmd.task_name = N_admin_access /\ cmd.user_id \notin {W_admin, W_system}
       /\ ~ErrorIn({"save", "publish"})) =>
        /\ check_permission_constraints(cmd.task_name, Ctx)
              = << SecurityThreat("PRIVILEGE_ESCALATION", "MEDIUM") >>
        /\ response.kind = "success"
        /\ response.task_id \in DOMAIN storage

\* C8 amended: for "admin access" from a user other than admin and system
\* the permission-constraint detector raises a MEDIUM threat on that text,
\* and a security check that finds one MEDIUM threat does not abort (only
\* CRITICAL does); but create_task rejects this name before the security
\* check, for the reserved word "admin" (VALIDATION_ERROR, or
\* INFRASTRUCTURE_ERROR when the user id is blank), and stores no task.
C8_AdminAccessIsRejected ==
    /\ (Returned /\ cmd.task_name = N_admin_access /\ cmd.user_id \notin {W_admin, W_system}) =>
          /\ check_permission_constraints(cmd.task_name, Ctx)
                = << SecurityThreat("PRIVILEGE_ESCALATION", "MEDIUM") >>
          /\ response.kind = "error"
          /\ response.error_code =
                IF Strip(cmd.user_id) # << >> THEN "VALIDATION_ERROR" ELSE "INFRASTRUCTURE_ERROR"
          /\ Strip(cmd.user_id) # << >> =>
                \E i \in 1..Len(response.details) :
                    response.details[i] = [text |-> "RESERVED_WORD", arg |-> 1]
          /\ ~HasStep("security")
          /\ storage = storage0
    /\ (/\ steps # << >>
        /\ steps[Len(steps)] = "security"
        /\ local.threats = << SecurityThreat("PRIVILEGE_ESCALATION", "MEDIUM") >>)
          => pc = "construct"

C8_Witness ==
    /\ Returned
    /\ cmd.task_name = N_admin_access
    /\ cmd.user_id = U_user123
    /\ response.error_code = "VALIDATION_ERROR"

\* C9: for a name that produces no violation and no threat, from a named
\* user and with both collaborators succeeding, create_task returns a success response with the
\* pending status and a task id in UUID format, and a task with that id is
\* in storage.
C9_CleanNameSucceeds ==
    (/\ Answered
     /\ validate_task_creation(cmd.task_name, Ctx).is_valid
     /\ check_security_constraints(CleanInput, Ctx).detected_threats = << >>
     /\ ~ErrorIn({"save", "publish"})) =>
        /\ response.kind = "success"
        /\ response.status = "PENDING"
        /\ IsUuid(response.task_id)
        /\ response.task_id \in DOMAIN storage

\* C10: every Task made by the creation path has createdAt equal to
\* updatedAt, whatever the clock does between the steps of creation.
C10_CreatedEqualsUpdated ==
    local.task # NoTask => local.task.created_at = local.task.updated_at

\* the result of the first sanitize_task_input call of the probe
Sanitized == probe.out[1]

\* C11: sanitization is idempotent under the default policy (STRICT, the
\* one sanitize_task_input uses when it is given the text alone): applied to
\* its own clean output it returns that text unchanged, with no modification.
C11_SanitizeIdempotent ==
    (probe.op = "sanitize" /\ probe.stage = 2 /\ probe.arg.policy = "STRICT") =>
        /\ probe.out[2].clean_input = Sanitized.clean_input
        /\ probe.out[2].modifications = << >>

C11_Witness ==
    /\ probe.op = "sanitize"
    /\ probe.stage = 2
    /\ probe.arg.policy = "STRICT"
    /\ probe.arg.text = T_amp
    /\ Sanitized.clean_input = <<"a","a","m","p","b">>
    /\ Len(Sanitized.modifications) = 2

\* C12: for every input containing the block <script>alert(1)</script> the
\* clean output of the sanitizer contains neither the tag name "script" nor
\* the text "alert" that stood between the tags.
C12_ScriptBlockRemoved ==
    (probe.op = "sanitize" /\ probe.stage >= 1 /\ Contains(probe.arg.text, T_script)) =>
        /\ ~Contains(LowerStr(Sanitized.clean_input), W_script)
        /\ ~Contains(LowerStr(Sanitized.clean_input), W_alert)

\* the text the length limit receives: the input after the HTML escape, the
\* script patterns, the character restriction and the whitelist hook
BeforeLimit(x, policy) ==
    apply_whitelist_filter(
        sanitize_special_chars(sanitize_scripts(sanitize_html(x).text).text, policy).text,
        policy).text

\* C13: the clean output is at most 100 characters long; when the text after
\* the earlier transforms is longer than 100 characters the output is its
\* first 100 characters and the last modification recorded names the length
\* limit; when it is not longer, no modification names the length limit.
C13_LengthLimit ==
    (probe.op = "sanitize" /\ probe.stage >= 1) =>
        LET before == BeforeLimit(probe.arg.text, probe.arg.policy)
            mods == Sanitized.modifications
        IN /\ Len(Sanitized.clean_input) <= 100
           /\ Len(before) > 100 =>
                 /\ Sanitized.clean_input = SubSeq(before, 1, 100)
                 /\ mods # << >>
                 /\ mods[Len(mods)].reason = [kind |-> "LENGTH_LIMIT", arg |-> 100]
           /\ Len(before) <= 100 =>
                 /\ Sanitized.clean_input = before
                 /\ \A i \in 1..Len(mods) : mods[i].reason.kind # "LENGTH_LIMIT"

C13_Witness ==
    /\ probe.op = "sanitize"
    /\ probe.stage >= 1
    /\ probe.arg.text = Rep("x", 150)
    /\ Sanitized.clean_input = Rep("x", 100)
    /\ Len(Sanitized.modifications) = 1
    /\ Sanitized.modifications[1].reason.kind = "LENGTH_LIMIT"

\* C14: after save(t), find_by_id(t.task_id) returns, at whatever clock time
\* it is called, a Task with the id, name, status, createdAt and updatedAt
\* that were saved; find_by_id of an id that was never saved returns null.
C14_StorageRoundTrip ==
    found.task_id # NoId =>
        IF found.task_id \in DOMAIN storage
        THEN LET saved == storage[found.task_id]
             IN /\ found.present
                /\ found.task.task_id = saved.task_id
                /\ found.task.task_name = saved.task_name
                /\ found.task.status = saved.status
                /\ found.task.created_at = fromisoformat(saved.created_at)
                /\ found.task.updated_at = fromisoformat(saved.updated_at)
        ELSE ~found.present

\* C15: every TaskName that is constructed holds a value that is non-empty
\* after trimming and at most 100 characters long, and construction fails
\* for an empty name, a whitespace-only name and a name longer than 100
\* characters after trimming.
C15_TaskNameInvariant ==
    (probe.op = "task_name" /\ probe.stage = 1) =>
        /\ probe.out.exc = NoExc =>
              /\ Strip(probe.out.value) # << >>
              /\ Len(probe.out.value) <= 100
        /\ (Strip(probe.arg.value) = << >> \/ Len(Strip(probe.arg.value)) > 100) =>
              probe.out.exc # NoExc

\* C16: every Task that exists satisfies createdAt <= updatedAt: after
\* Task.create and after any number of update_task_name calls; a Task whose
\* createdAt is later than its updatedAt is not constructed.
C16_CreatedNotAfterUpdated ==
    (probe.op = "task" /\ probe.stage >= 1 /\ probe.out.task # NoTask) =>
        probe.out.task.created_at <= probe.out.task.updated_at

\* C17: at every reading now of the clock, a timestamp not later than
\* now + 100 ms is accepted and a later one is rejected with a
\* TaskValidationException; the check never fails in any other way.
C17_GraceWindowAtEveryClock ==
    (probe.op = "command" /\ probe.stage = 1) =>
        probe.out = (IF probe.arg.timestamp <= probe.arg.now + Grace THEN "" ELSE "TaskValidationException")

\* C18: a request that fails the structural validation of CreateTaskCommand
\* (empty name, empty user id, future timestamp, request id that is not a
\* UUID) is reported as VALIDATION_ERROR with HTTP status 400, never as
\* UNKNOWN_ERROR or status 500.
C18_StructuralFailureIs400 ==
    (response.src = "command" /\ response.kind = "raised" /\ response.error_code = "TaskValidationException") =>
        /\ controller_create_task(response).raised = ""
        /\ post_api_tasks(response).error_code = "VALIDATION_ERROR"
        /\ post_api_tasks(response).status_code = 400

ErrorCodes == {"VALIDATION_ERROR", "SECURITY_ERROR", "BUSINESS_RULE_VIOLATION", "INFRASTRUCTURE_ERROR", "UNKNOWN_ERROR"}

\* C19: create_task is total over its result type: whatever the command and
\* whether save and publish return or raise, an exception raised inside the
\* call goes to its except clauses, and the call ends by returning a success
\* payload or an error payload with one of the five error codes; no
\* exception of the domain service, of save or of publish leaves the call.
\* (The one exception that can leave it is that of its own logger.)
C19_CreateTaskTotal ==
    /\ (pc # "idle" /\ local.exc # NoExc) => pc = "respond"
    /\ (Ended /\ response # create_task_raised) =>
          \/ response.kind = "success" /\ response.task_id # NoId
          \/ response.kind = "error" /\ response.error_code \in ErrorCodes

\* C19 witness: publish raised an exception of no domain class and
\* create_task returned an error payload for it
C19_Witness ==
    /\ PublishRaised
    /\ response.kind = "error"
    /\ response.error_code = "UNKNOWN_ERROR"

\* C20: a failure of either collaborator during create_task, save raising or
\* publish raising, is returned as INFRASTRUCTURE_ERROR with the generic
\* message, which carries no text of the underlying exception.
C20_CollaboratorFailureIsInfrastructure ==
    (Returned /\ LastStep \in {"save", "publish"} /\ response.kind = "error") =>
        /\ response.error_code = "INFRASTRUCTURE_ERROR"
        /\ response.message = "TASK_CREATION_FAILED"
        /\ response.details = << >>

\* some threat of the list has the given risk level
HasLevel(threats, level) == \E i \in 1..Len(threats) : threats[i].risk_level = level

\* C21: for every list of detected threats, of any length, the check returns
\* normally with is_passed true exactly when the list is empty, and with
\* recommended_action REJECT if a threat is CRITICAL, else SANITIZE if one is
\* HIGH, else AUDIT if one is MEDIUM, else ALLOW.
C21_RecommendedAction ==
    (probe.op = "security" /\ probe.stage = 1) =>
        /\ probe.out.raised = ""
        /\ probe.out.is_passed = (Len(probe.out.detected_threats) = 0)
        /\ probe.out.recommended_action =
              (IF HasLevel(probe.out.detected_threats, "CRITICAL") THEN "REJECT"
               ELSE IF HasLevel(probe.out.detected_threats, "HIGH") THEN "SANITIZE"
               ELSE IF HasLevel(probe.out.detected_threats, "MEDIUM") THEN "AUDIT"
               ELSE "ALLOW")

\* the threats the security check detects on the sanitized name of the request
Threats == check_security_constraints(CleanInput, Ctx).detected_threats

\* C22: among the requests that pass business-rule validation, create_task
\* answers SECURITY_ERROR exactly when the security check of the sanitized
\* text detects a CRITICAL threat; with LOW, MEDIUM and HIGH threats only,
\* however many, creation is not aborted: it goes on to the construction of
\* the task as it does with no threat.
C22_OnlyCriticalAborts ==
    (Returned /\ validate_step(cmd.task_name, Ctx) = NoExc) =>
        /\ (response.error_code = "SECURITY_ERROR") <=> HasLevel(Threats, "CRITICAL")
        /\ ~HasLevel(Threats, "CRITICAL") => HasStep("construct")

\* the rule ids of a violation list, in order
RuleIds(violations) == [i \in 1..Len(violations) |-> violations[i].rule_id]

\* the number of violations of a rule in a violation list
CountRule(violations, rule_id) == Cardinality({i \in 1..Len(violations) : violations[i].rule_id = rule_id})

\* the reserved words contained in a name
ReservedIn(task_name) == {k \in 1..Len(RESERVED_WORDS) : Contains(Strip(LowerStr(task_name)), RESERVED_WORDS[k])}

\* C23: validate_task_creation does not short-circuit between its
\* sub-checks: the violation list is the concatenation, in order, of the
\* violations of the basic, pattern, reserved-word/content and context
\* checks, with one MEDIUM violation for each reserved word contained and at
\* most one violation per XSS family, per SQL family and for inappropriate
\* content; is_valid is true exactly when the list is empty.
C23_NoShortCircuit ==
    (probe.op = "validation" /\ probe.stage = 1) =>
        LET name == probe.arg.task_name
            vs == probe.out.violations
        IN /\ probe.out.is_valid = (Len(vs) = 0)
           /\ vs = validate_basic_rules(name) \o validate_security_rules(name)
                   \o validate_business_rules(name)
                   \o validate_context_rules([user_id |-> probe.arg.user_id, request_id |-> NoId])
           /\ CountRule(vs, "BR-001") = (IF Strip(name) = << >> THEN 1 ELSE 0)
           /\ CountRule(vs, "BR-004") = (IF Len(Strip(name)) > MaxNameLength THEN 1 ELSE 0)
           /\ CountRule(vs, "BR-005") =
                 (IF AnyPatternMatches(validation_xss_patterns, name) THEN 1 ELSE 0)
                 + (IF AnyPatternMatches(validation_sql_patterns, name) THEN 1 ELSE 0)
           /\ CountRule(vs, "BR-RESERVED") = Cardinality(ReservedIn(name))
           /\ \A i \in 1..Len(vs) : vs[i].rule_id = "BR-RESERVED" => vs[i].severity = "MEDIUM"
           /\ CountRule(vs, "BR-CONTENT") <= 1
           /\ CountRule(vs, "BR-CONTEXT-USER") = (IF probe.arg.user_id = << >> THEN 1 ELSE 0)

\* C23 witness: a name that violates the length rule, both pattern families,
\* several reserved words and the content filter, from a request without user
\* id: every sub-check contributed to the list
C23_Witness ==
    /\ probe.op = "validation"
    /\ probe.stage = 1
    /\ RuleIds(probe.out.violations) =
          <<"BR-004", "BR-005", "BR-005", "BR-RESERVED", "BR-RESERVED", "BR-CONTENT", "BR-CONTEXT-USER">>
    /\ ~probe.out.is_valid

\* the number of reasons that mention script, HTML or dangerous
RiskCount(kinds) == Cardinality({i \in 1..Len(kinds) : kinds[i] \in {"HTML_ESCAPE", "SCRIPT_PATTERN"}})

\* the risk level the rule gives for a list of reasons
RiskOf(kinds) ==
    IF Len(kinds) = 0 THEN "NONE"
    ELSE IF RiskCount(kinds) > 2 THEN "HIGH"
    ELSE IF RiskCount(kinds) >= 1 THEN "MEDIUM"
    ELSE IF Len(kinds) > 3 THEN "MEDIUM"
    ELSE "LOW"

\* the position of a modification in the order the transforms run
TransformRank(reason) ==
    CASE reason.kind = "HTML_ESCAPE" -> 0
      [] reason.kind = "SCRIPT_PATTERN" -> reason.arg
      [] reason.kind = "STRICT_CHARS" -> Len(dangerous_patterns) + 1
      [] OTHER -> Len(dangerous_patterns) + 2

\* C24: the risk level of sanitize_task_input is a function of the recorded
\* modification list only: NONE for the empty list, HIGH with more than 2
\* risk reasons, MEDIUM with 1 or 2, MEDIUM with none but more than 3
\* modifications, LOW otherwise; modifications are recorded in the order the
\* transforms ran and only for a transform that changed the text.
C24_RiskLevelFromModifications ==
    /\ (probe.op = "risk" /\ probe.stage = 1) => probe.out = RiskOf(probe.arg.kinds)
    /\ (probe.op = "sanitize" /\ probe.stage >= 1) =>
          LET mods == Sanitized.modifications
          IN /\ Sanitized.risk_level = RiskOf([i \in 1..Len(mods) |-> mods[i].reason.kind])
             /\ \A i \in 1..Len(mods) : mods[i].original # mods[i].modified
             /\ \A i \in 1..(Len(mods) - 1) :
                   /\ TransformRank(mods[i].reason) < TransformRank(mods[i + 1].reason)
                   /\ mods[i + 1].original = mods[i].modified
             /\ mods = << >> => Sanitized.clean_input = probe.arg.text
             /\ mods # << >> => /\ mods[1].original = probe.arg.text
                                /\ mods[Len(mods)].modified = Sanitized.clean_input

\* C24 witness: a text that the escaping, the STRICT character filter and
\* the length limit all change, with the three modifications in that order
C24_Witness ==
    /\ probe.op = "sanitize"
    /\ probe.stage >= 1
    /\ Len(Sanitized.modifications) = 3
    /\ Sanitized.modifications[1].reason.kind = "HTML_ESCAPE"
    /\ Sanitized.modifications[2].reason.kind = "STRICT_CHARS"
    /\ Sanitized.modifications[3].reason.kind = "LENGTH_LIMIT"
    /\ Sanitized.risk_level = "MEDIUM"

\* every entry of the store before a step is in the store after it, unchanged
StorageKept == \A k \in DOMAIN storage : k \in DOMAIN storage' /\ storage'[k] = storage[k]

\* C25: storage is append-only under create_task: over any sequence of
\* requests a stored task stays stored with the same id, name, status and
\* timestamps; a successful request adds exactly one new key, a request that
\* fails before save adds none, and none removes or overwrites an entry.
C25_StorageAppendOnly ==
    /\ [][StorageKept /\ Cardinality(DOMAIN storage') <= Cardinality(DOMAIN storage) + 1]_vars
    /\ [](Returned =>
            /\ response.kind = "success" =>
                  /\ response.task_id \notin DOMAIN storage0
                  /\ DOMAIN storage = DOMAIN storage0 \cup {response.task_id}
            /\ ErrorIn(BeforeSave) => storage = storage0
            /\ \A k \in DOMAIN storage0 : k \in DOMAIN storage /\ storage[k] = storage0[k])

\* C25 witness: a second request succeeded and the task of the first one is
\* still stored beside the new one
C25_Witness ==
    /\ Returned
    /\ response.kind = "success"
    /\ Cardinality(DOMAIN storage0) = 1
    /\ Cardinality(DOMAIN storage) = 2

\* C26: create_task answers INFRASTRUCTURE_ERROR only when the storage or
\* the event collaborator failed: while both work, no request is answered
\* INFRASTRUCTURE_ERROR because of its name or user id.
C26_InfrastructureOnlyFromCollaborators ==
    (Returned /\ response.error_code = "INFRASTRUCTURE_ERROR") => LastStep \in {"save", "publish"}

\* the construction of the task raised TaskBusinessRuleViolationException
\* inside the factory, and create_task returned
BusinessRuleRaised ==
    /\ Returned
    /\ LastStep = "construct"
    /\ response.kind = "error"
    /\ TaskName(CleanInput).exc.cls = "TaskBusinessRuleViolationException"

\* C27: create_task never returns BUSINESS_RULE_VIOLATION (nor does the
\* controller answer 422): a TaskBusinessRuleViolationException is a
\* TaskValidationException, so the VALIDATION_ERROR handler, which comes
\* first, would catch it, and the one the factory raises is wrapped into a
\* TaskCreationException before it reaches the application service.
C27_NoBusinessRuleViolation ==
    /\ response.error_code # "BUSINESS_RULE_VIOLATION"
    /\ post_api_tasks(response).status_code # 422
    /\ BusinessRuleRaised =>
          /\ response.error_code = "INFRASTRUCTURE_ERROR"
          /\ error_response_for(TaskName(CleanInput).exc).error_code = "VALIDATION_ERROR"

\* C27 witness: a name that is sanitized to the empty string; TaskName raised
\* the business-rule exception and the request was answered
C27_Witness == BusinessRuleRaised /\ CleanInput = << >>

\* the modifications of the sanitizing whose reason has a risk keyword
RiskMods == {i \in 1..Len(Sanitized.modifications) : Sanitized.modifications[i].reason.kind \in {"HTML_ESCAPE", "SCRIPT_PATTERN"}}

\* C28: because the HTML escaping runs first, the script-stripping step of
\* sanitize_task_input only ever applies its second rule, javascript: to
\* text:; the script, event-handler and iframe rules change no text, so at
\* most 2 risk modifications are recorded and the risk level is never HIGH.
C28_OnlyJavascriptRuleApplies ==
    (probe.op = "sanitize" /\ probe.stage >= 1) =>
        /\ \A i \in 1..Len(Sanitized.modifications) :
              Sanitized.modifications[i].reason.kind = "SCRIPT_PATTERN" =>
                  /\ Sanitized.modifications[i].reason.arg = 2
                  /\ dangerous_patterns[2].pat = Lit(W_javascript)
        /\ Cardinality(RiskMods) <= 2
        /\ Sanitized.risk_level # "HIGH"

\* C28 witness: a text with a script block, an event handler, an iframe and
\* javascript: in it; the escaping and the javascript: rule are the two risk
\* modifications recorded
C28_Witness ==
    /\ probe.op = "sanitize"
    /\ probe.stage >= 1
    /\ Contains(probe.arg.text, T_script)
    /\ Contains(probe.arg.text, T_onclick)
    /\ Contains(probe.arg.text, T_iframe)
    /\ Cardinality(RiskMods) = 2
    /\ Sanitized.risk_level = "MEDIUM"

\* the event published last
LastEvent == published[Len(published)]

\* create_task returned a success response for a task stored under the id of
\* the response and published in the last event, all three with the given
\* name; the event names the requesting user and every published event
\* refers to a stored task
SameTask(name) ==
    /\ response.task_id \in DOMAIN storage
    /\ storage[response.task_id].task_id = response.task_id
    /\ Len(published) > 0
    /\ LastEvent.task_id = response.task_id
    /\ response.task_name = name
    /\ storage[response.task_id].task_name = name
    /\ LastEvent.task_name = name
    /\ LastEvent.user_id = cmd.user_id
    /\ \A i \in 1..Len(published) : published[i].task_id \in DOMAIN storage

\* C29 (as stated): on every successful create_task the response, the stored
\* record and the published event describe the same task, with the same id
\* and, as name, the sanitized name; the event's user id is the requesting
\* user id and every published event refers to a stored task id.
C29_SameTaskSanitizedName ==
    (Returned /\ response.kind = "success") => SameTask(CleanInput)

\* C29 (amended): the same, where the name in all three is the sanitized name
\* with its leading and trailing whitespace removed, as TaskName holds it.
C29_SameTaskTrimmedName ==
    (Returned /\ response.kind = "success") => SameTask(Strip(CleanInput))

\* C29 witness: a successful request whose sanitized name has whitespace
\* around it
C29_Witness ==
    /\ Returned
    /\ response.kind = "success"
    /\ CleanInput # Strip(CleanInput)
    /\ LastEvent.user_id = U_user123

\* a name passes the name rules of the business-rule validation
PassesNameRules(name) ==
    /\ Strip(name) # << >>
    /\ Len(Strip(name)) <= MaxNameLength
    /\ ReservedIn(name) = {}
    /\ ~AnyPatternMatches(validation_xss_patterns, name)
    /\ ~AnyPatternMatches(validation_sql_patterns, name)

\* C30: every task name that reaches storage through create_task would
\* itself pass business-rule validation: it is non-empty, at most 100
\* characters long, contains no reserved word and matches no XSS or SQL
\* marker pattern.
C30_StoredNamePassesValidation ==
    \A k \in DOMAIN storage :
        /\ PassesNameRules(storage[k].task_name)
        /\ validate_task_creation(storage[k].task_name, [user_id |-> U_user123, request_id |-> NoId]).is_valid

====
